---------------------------- MODULE Spec2Model ----------------------------
(***************************************************************************)
(* A model of POPBAM's genotype-call encoding (pop_utils.cpp) and of the   *)
(* per-window linkage-disequilibrium driver and statistics (pop_ld.cpp,    *)
(* pop_sfs.cpp).                                                           *)
(*                                                                         *)
(* Conventions.                                                            *)
(*  - A 64-bit call word ("cb") is kept as its five fields, low to high:   *)
(*    flags (byte 1), genotype (byte 2), num_reads (bytes 3-4),            *)
(*    snp_quality (bytes 5-6), rmsQ (bytes 7-8).  Word addition and        *)
(*    subtraction carry and borrow across the fields modulo 2^64, exactly  *)
(*    as the unsigned long long arithmetic of the source does.             *)
(*  - A float likelihood is kept in thousandths (fixed point), so that the *)
(*    rounding constant 0.499 of gl2cns is the integer 499.                *)
(*  - A double statistic is kept as an exact fraction, or inf / nan.       *)
(***************************************************************************)
EXTENDS Integers, Sequences, FiniteSets, TLC

VARIABLES
    pc,          \* position of the running program / which function has run
    q,           \* gl2cns: the genotype likelihoods, index i<<2|j
    k,           \* gl2cns: the read depth argument
    cb,          \* the call words of the current site, one per sample
    cb0,         \* the call words on entry of the last function applied
    ref,         \* the reference base of the current site
    ret,         \* the value returned by the last function applied
    \* options and sample data of a run
    derived_type, flag, output, min_snps, min_freq, min_pop, win_size, sm,
    outidx, outpop,
    \* an allocation of the current window has thrown bad_alloc
    bad_alloc,
    \* main_ld / main_sfs: the region, the window loop and the pileup position
    beg, end, num_windows, cw, t_beg, t_end, pos,
    \* the window: buffers and counters of ldData / sfsData
    pop_mask, types, segsites, num_sites, pop_cov, ncov,
    \* the statistics of the window and the lines printed so far
    num_snps, zns, omegamax, wallb, wallq, ns, td, fwh, out,
    \* make_ld / make_sfs: locals of the handler, and the calls it has made
    \* for the current column, in order
    sample_cov, fq, steps,
    \* the error model: cal_coef's depcorr and table fk, and errmod_cal's
    \* observations, the positions of those it uses, its counts aux.c and the
    \* likelihood matrix q it fills
    depcorr, fk, bases, used, aux_c, lik

fnVars == <<q, k, cb0, ret>>
optVars == <<derived_type, flag, output, min_snps, min_freq, min_pop, win_size, sm,
            outidx, outpop>>
mainVars == <<beg, end, num_windows, cw, t_beg, t_end>>
winVars == <<pop_mask, types, segsites, num_sites, pop_cov, ncov>>
statVars == <<num_snps, zns, omegamax, wallb, wallq, ns, td, fwh>>
siteVars == <<sample_cov, fq, steps>>
emVars == <<depcorr, fk, bases, used, aux_c, lik>>
runVars == <<optVars, emVars, bad_alloc, mainVars, pos, winVars, statVars, out, siteVars>>

vars == <<pc, cb, ref, fnVars, runVars>>

(***************************************************************************)
(* Program constants                                                       *)
(***************************************************************************)
NBASES == 4
CHAR_BIT == 8
\* stands for the float maximum: larger than every likelihood of the model
FLT_MAX == 2000000000
\* option defaults (usage text)
min_depth == 3
max_depth == 255
min_rmsQ == 25
min_snpQ == 25

(***************************************************************************)
(* Bounds of the model                                                     *)
(***************************************************************************)
NumSamples == 2

Samples == 0 .. (NumSamples - 1)

(***************************************************************************)
(* 64-bit words as fields                                                  *)
(***************************************************************************)
B8 == 2 ^ CHAR_BIT
B16 == 2 ^ (2 * CHAR_BIT)

ZeroWord == [flags |-> 0, genotype |-> 0, num_reads |-> 0, snp_quality |-> 0, rmsQ |-> 0]

\* (unsigned long long)(x) << 8 for an int x (negative x converts modulo 2^64)
Shl8(x) ==
    LET y1 == x \div B8
        y2 == y1 \div B16
        y3 == y2 \div B16
    IN  [flags |-> 0, genotype |-> x % B8, num_reads |-> y1 % B16,
         snp_quality |-> y2 % B16, rmsQ |-> y3 % B16]

\* x << 16
Shl16(x) ==
    LET y2 == x \div B16
        y3 == y2 \div B16
    IN  [flags |-> 0, genotype |-> 0, num_reads |-> x % B16,
         snp_quality |-> y2 % B16, rmsQ |-> y3 % B16]

\* x << 32
Shl32(x) ==
    LET y3 == x \div B16
    IN  [flags |-> 0, genotype |-> 0, num_reads |-> 0,
         snp_quality |-> x % B16, rmsQ |-> y3 % B16]

\* a + sgn * b modulo 2^64, sgn = 1 or -1
WordArith(a, b, sgn) ==
    LET t0 == a.flags + sgn * b.flags
        t1 == a.genotype + sgn * b.genotype + (t0 \div B8)
        t2 == a.num_reads + sgn * b.num_reads + (t1 \div B8)
        t3 == a.snp_quality + sgn * b.snp_quality + (t2 \div B16)
        t4 == a.rmsQ + sgn * b.rmsQ + (t3 \div B16)
    IN  [flags |-> t0 % B8, genotype |-> t1 % B8, num_reads |-> t2 % B16,
         snp_quality |-> t3 % B16, rmsQ |-> t4 % B16]

WordPlus(a, b) == WordArith(a, b, 1)
WordMinus(a, b) == WordArith(a, b, -1)

\* cb |= 0x1 and cb |= 0x2
OrBit0(w) == IF w.flags % 2 = 1 THEN w ELSE [w EXCEPT !.flags = @ + 1]
OrBit1(w) == IF (w.flags \div 2) % 2 = 1 THEN w ELSE [w EXCEPT !.flags = @ + 2]

\* the fields as the source decodes them
PassBit(w) == w.flags % 2
VariantBit(w) == (w.flags \div 2) % 2
Allele1(w) == (w.genotype \div 4) % 4
Allele2(w) == w.genotype % 4

(***************************************************************************)
(* gl2cns                                                                  *)
(***************************************************************************)
\* the (i, j) of the two nested loops, in the order the loops visit them
PairOrder ==
    << <<0,0>>, <<0,1>>, <<0,2>>, <<0,3>>, <<1,1>>, <<1,2>>, <<1,3>>,
       <<2,2>>, <<2,3>>, <<3,3>> >>

PairIndex(p) == p[1] * NBASES + p[2]

RECURSIVE MinScan(_, _, _)
\* the state of the scan after the first n pairs: min, min_next, min_ij
MinScan(qq, n, InitSt) ==
    IF n = 0 THEN InitSt
    ELSE LET s == MinScan(qq, n - 1, InitSt)
             ij == PairIndex(PairOrder[n])
             likelihood == qq[ij]
         IN  IF likelihood < s.min
             THEN [min |-> likelihood, min_next |-> s.min, min_ij |-> ij]
             ELSE IF likelihood < s.min_next
                  THEN [s EXCEPT !.min_next = likelihood]
                  ELSE s

gl2cns(qq, kk) ==
    LET s == MinScan(qq, Len(PairOrder), [min |-> FLT_MAX, min_next |-> FLT_MAX, min_ij |-> 0])
        snp_quality == Shl32(((s.min_next - s.min) + 499) \div 1000)
        num_reads == Shl16(kk)
        genotype == Shl8(s.min_ij)
    IN  WordPlus(WordPlus(snp_quality, num_reads), genotype)

(***************************************************************************)
(* The IUPAC tables (tables.h)                                             *)
(***************************************************************************)
Bases == <<"A", "C", "G", "T">>

\* iupac[genotype]: the symbol of a genotype byte allele1<<2|allele2
iupac(g) ==
    << "A", "M", "R", "W", "M", "C", "S", "Y", "R", "S", "G", "K", "W", "Y", "K", "T" >>[g + 1]

\* iupac_rev[ref]: the 2-bit code of a base
iupac_rev(r) == CHOOSE a \in 0 .. (NBASES - 1) : Bases[a + 1] = r

(***************************************************************************)
(* qualFilter                                                              *)
(***************************************************************************)
\* mutant: the upper depth bound is not tested
QualPass_NoMaxDepth(w) ==
    (w.rmsQ >= min_rmsQ) /\ (w.num_reads >= min_depth)

QualPass(w) ==
    (w.rmsQ >= min_rmsQ) /\ (w.num_reads >= min_depth) /\ (w.num_reads <= max_depth)

\* the call words and the coverage mask (the set of its set bits) after the loop
qualFilter(c) ==
    [cb |-> [i \in DOMAIN c |-> IF QualPass(c[i]) THEN OrBit0(c[i]) ELSE c[i]],
     coverage |-> {i \in DOMAIN c : QualPass(c[i])}]

(***************************************************************************)
(* segBase                                                                 *)
(***************************************************************************)
SegHom(w) == Allele1(w) = Allele2(w)

\* which branch of the loop body a call word takes
SegTally(w, r) == SegHom(w) /\ (iupac(w.genotype) # r) /\ (w.snp_quality >= min_snpQ)
SegRevert(w, r) == SegHom(w) /\ (iupac(w.genotype) # r) /\ (w.snp_quality < min_snpQ)

\* cb[i] -= (genotype - iupac_rev[ref]) << CHAR_BIT;
\* cb[i] -= (genotype - iupac_rev[ref]) << (CHAR_BIT + 2)
RevertWord(w, r) ==
    LET d == w.genotype - iupac_rev(r)
    IN  WordMinus(WordMinus(w, Shl8(d)), Shl8(4 * d))

\* mutant: the variant bit is not marked
SegWord_NoVariantBit(w, r) ==
    IF SegTally(w, r) THEN w
    ELSE IF SegRevert(w, r) THEN RevertWord(w, r)
    ELSE w

SegWord(w, r) ==
    IF SegTally(w, r) THEN OrBit1(w)
    ELSE IF SegRevert(w, r) THEN RevertWord(w, r)
    ELSE w

baseCount(c, r) ==
    [a \in 0 .. (NBASES - 1) |->
        Cardinality({i \in DOMAIN c : SegTally(c[i], r) /\ Allele1(c[i]) = a})]

\* mutant: the infinite-sites check is missing
SegResult_NoCheck(bc) ==
    LET seen == {a \in DOMAIN bc : bc[a] > 0}
        kk == IF seen = {} THEN 0 ELSE CHOOSE a \in seen : \A b \in seen : b <= a
    IN  bc[kk]

\* the infinite-sites check: j = number of bases counted, k = the last of them
SegResult(bc) ==
    LET seen == {a \in DOMAIN bc : bc[a] > 0}
        j == Cardinality(seen)
        kk == IF seen = {} THEN 0 ELSE CHOOSE a \in seen : \A b \in seen : b <= a
    IN  IF j > 1 THEN -1 ELSE bc[kk]

segBase(c, r) ==
    [cb |-> [i \in DOMAIN c |-> SegWord(c[i], r)],
     fq |-> SegResult(baseCount(c, r))]

(***************************************************************************)
(* cleanHeterozygotes                                                      *)
(***************************************************************************)
\* if heterozygous and high quality SNP
CleanHigh(w, r) ==
    LET allele1 == Allele1(w)
        allele2 == Allele2(w)
        w1 == IF allele1 = iupac_rev(r)
              THEN WordPlus(w, Shl8(4 * (allele2 - allele1))) ELSE w
        w2 == IF allele2 = iupac_rev(r)
              THEN WordMinus(w1, Shl8(allele2 - allele1)) ELSE w1
    IN  w2

\* if heterozygous but poor quality
CleanLow(w, r) ==
    LET allele1 == Allele1(w)
        allele2 == Allele2(w)
        w1 == IF allele1 # iupac_rev(r)
              THEN WordPlus(w, Shl8(4 * (allele2 - allele1))) ELSE w
        w2 == IF allele2 # iupac_rev(r)
              THEN WordMinus(w1, Shl8(allele2 - allele1)) ELSE w1
    IN  w2

CleanWord(w, r) ==
    LET het == Allele1(w) # Allele2(w)
        w1 == IF het /\ (w.snp_quality >= min_snpQ) THEN CleanHigh(w, r) ELSE w
        \* the second test reads the alleles and the quality decoded on entry
        w2 == IF het /\ (w.snp_quality < min_snpQ) THEN CleanLow(w1, r) ELSE w1
    IN  w2

cleanHeterozygotes(c, r) == [i \in DOMAIN c |-> CleanWord(c[i], r)]

(***************************************************************************)
(* Doubles: an exact fraction n/d (d > 0, lowest terms), an infinity or a  *)
(* NaN, combined by the IEEE rules for division by zero, inf and NaN       *)
(***************************************************************************)
RECURSIVE GCD(_, _)
GCD(a, b) == IF b = 0 THEN a ELSE GCD(b, a % b)

Abs(x) == IF x < 0 THEN -x ELSE x

NaN == [kind |-> "nan"]
Inf(sign) == [kind |-> "inf", s |-> sign]

Frac(n, d) ==
    LET g == GCD(Abs(n), Abs(d))
        sg == IF d < 0 THEN -1 ELSE 1
    IN  [kind |-> "num", n |-> (sg * n) \div g, d |-> (sg * d) \div g]

DInt(x) == [kind |-> "num", n |-> x, d |-> 1]
DZero == DInt(0)

IsNum(x) == x.kind = "num"
Sign(x) == IF x.kind = "inf" THEN x.s ELSE IF x.n > 0 THEN 1 ELSE IF x.n < 0 THEN -1 ELSE 0

DAdd(x, y) ==
    IF x.kind = "nan" \/ y.kind = "nan" THEN NaN
    ELSE IF x.kind = "inf" /\ y.kind = "inf" THEN (IF x.s = y.s THEN x ELSE NaN)
    ELSE IF x.kind = "inf" THEN x
    ELSE IF y.kind = "inf" THEN y
    ELSE LET l == (x.d \div GCD(x.d, y.d)) * y.d
         IN  Frac(x.n * (l \div x.d) + y.n * (l \div y.d), l)

DMul(x, y) ==
    IF x.kind = "nan" \/ y.kind = "nan" THEN NaN
    ELSE IF x.kind = "inf" \/ y.kind = "inf"
         THEN (IF Sign(x) * Sign(y) = 0 THEN NaN ELSE Inf(Sign(x) * Sign(y)))
    ELSE Frac(x.n * y.n, x.d * y.d)

DDiv(x, y) ==
    IF x.kind = "nan" \/ y.kind = "nan" THEN NaN
    ELSE IF x.kind = "inf" THEN (IF y.kind = "inf" THEN NaN
                                 ELSE Inf(x.s * (IF Sign(y) < 0 THEN -1 ELSE 1)))
    ELSE IF y.kind = "inf" THEN DZero
    ELSE IF y.n = 0 THEN (IF x.n = 0 THEN NaN ELSE Inf(Sign(x)))
    ELSE Frac(x.n * y.d, x.d * y.n)

\* x > y; false when either is a NaN
DGreater(x, y) ==
    IF x.kind = "nan" \/ y.kind = "nan" THEN FALSE
    ELSE IF x.kind = "inf" THEN (x.s = 1 /\ y # x)
    ELSE IF y.kind = "inf" THEN y.s = -1
    ELSE LET g == GCD(x.d, y.d) IN x.n * (y.d \div g) > y.n * (x.d \div g)

RECURSIVE DSum(_, _, _)
\* the sum of F(i) for i = lo .. hi, added in increasing order of i
DSum(F(_), lo, hi) == IF hi < lo THEN DZero ELSE DAdd(DSum(F, lo, hi - 1), F(hi))

\* the macros of popbam.h
SQ(x) == x * x
BINOM(x) == (x * (x - 1)) \div 2

(***************************************************************************)
(* Bit vectors over samples (types[], pop_mask[], coverage masks) are kept *)
(* as the sets of their set bits; arrays are functions on 0 .. len-1       *)
(***************************************************************************)
bitcount64(x) == Cardinality(x)

Arr(len, v) == [i \in 0 .. (len - 1) |-> v]

\* pop_nsmpl[i], the member count assign_pops stores beside pop_mask[i]
pop_nsmpl_of(masks, i) == Cardinality(masks[i])

(***************************************************************************)
(* calc_zns                                                                *)
(***************************************************************************)
\* (x >= min_freq) && (x <= (n - min_freq))
FreqOk(x, n, mf) == (x >= mf) /\ (x <= (n - mf))

\* mutant: the covariance is not squared
r2of_NotSquared(type0, type1, n) ==
    LET x0 == bitcount64(type0)
        x1 == bitcount64(type1)
        x11 == bitcount64(type0 \cap type1)
    IN  DDiv(DInt(x0 * x1 - n * x11), DInt((n - x0) * x0 * (n - x1) * x1))

\* SQ(x0 * x1 - n * x11) / (double)((n - x0) * x0 * (n - x1) * x1)
r2of(type0, type1, n) ==
    LET x0 == bitcount64(type0)
        x1 == bitcount64(type1)
        x11 == bitcount64(type0 \cap type1)
    IN  DDiv(DInt(SQ(x0 * x1 - n * x11)), DInt((n - x0) * x0 * (n - x1) * x1))

\* the loops of calc_zns for one population: its num_snps and zns on return
ZnsPop(ty, ss, mask, mf, zns0) ==
    LET n == Cardinality(mask)
        Q(j) == FreqOk(bitcount64(ty[j] \cap mask), n, mf)
        Inner(j) == DSum(LAMBDA kk : IF Q(kk) THEN r2of(ty[j] \cap mask, ty[kk] \cap mask, n)
                                     ELSE DZero, j + 1, ss - 1)
        Outer == DSum(LAMBDA j : IF Q(j) THEN Inner(j) ELSE DZero, 0, ss - 2)
        \* ++num_snps[i] in the loop over j < segsites-1, and once more after it
        cnt == Cardinality({j \in 0 .. (ss - 2) : Q(j)}) + 1
    IN  [num_snps |-> cnt,
         zns |-> DMul(DAdd(zns0, Outer), DDiv(DInt(1), DInt(BINOM(cnt))))]

calc_zns(ty, ss, masks, mf, ns0, zns0) ==
    IF ss < 1 THEN [num_snps |-> ns0, zns |-> zns0]
    ELSE [num_snps |-> [i \in DOMAIN masks |-> ZnsPop(ty, ss, masks[i], mf, zns0[i]).num_snps],
          zns |-> [i \in DOMAIN masks |-> ZnsPop(ty, ss, masks[i], mf, zns0[i]).zns]]

(***************************************************************************)
(* calc_omegamax                                                           *)
(***************************************************************************)
\* the r2 matrix of one population as the first loop nest leaves it: entry
\* [count1][count2] holds r2 of the count1-th and count2-th qualifying sites,
\* every other entry of the segsites x segsites matrix is 0
R2Matrix(ty, ss, mask, mf) ==
    LET n == Cardinality(mask)
        Q(j) == FreqOk(bitcount64(ty[j] \cap mask), n, mf)
        rank(j) == Cardinality({h \in 0 .. (j - 1) : Q(h)})
        site(c) == CHOOSE j \in 0 .. (ss - 1) : Q(j) /\ rank(j) = c
        m == Cardinality({j \in 0 .. (ss - 1) : Q(j)})
    IN  [a \in 0 .. (ss - 1) |-> [b \in 0 .. (ss - 1) |->
            IF a # b /\ a < m /\ b < m
            THEN r2of(ty[site(a)] \cap mask, ty[site(b)] \cap mask, n)
            ELSE DZero]]

RECURSIVE OmegaScan(_, _, _)
\* sumleft, sumbetween, sumright and omegamax after the split points 1 .. i
OmegaScan(r2, nsnp, i) ==
    IF i < 1 THEN [sumleft |-> DZero, sumbetween |-> DZero, sumright |-> DZero,
                   omegamax |-> DZero]
    ELSE LET s == OmegaScan(r2, nsnp, i - 1)
             sumleft == DAdd(s.sumleft,
                 DSum(LAMBDA kk : DSum(LAMBDA m : r2[kk][m], kk + 1, i), 0, i - 1))
             sumbetween == DAdd(s.sumbetween,
                 DSum(LAMBDA kk : DSum(LAMBDA m : r2[kk][m], 0, i), i + 1, nsnp - 1))
             sumright == DAdd(s.sumright,
                 DSum(LAMBDA kk : DSum(LAMBDA m : r2[kk][m], kk + 1, nsnp - 1), i + 1, nsnp - 2))
             left == i + 1
             right == nsnp - left
             omega0 == DDiv(DAdd(sumleft, sumright), DInt(BINOM(left) + BINOM(right)))
             omega == DMul(omega0, DDiv(DInt(left * right), sumbetween))
         IN  [sumleft |-> sumleft, sumbetween |-> sumbetween, sumright |-> sumright,
              omegamax |-> IF DGreater(omega, s.omegamax) THEN omega ELSE s.omegamax]

OmegaPop(ty, ss, mask, mf) ==
    LET n == Cardinality(mask)
        Q(j) == FreqOk(bitcount64(ty[j] \cap mask), n, mf)
        cnt == Cardinality({j \in 0 .. (ss - 2) : Q(j)}) + 1
    IN  [num_snps |-> cnt,
         omegamax |-> OmegaScan(R2Matrix(ty, ss, mask, mf), cnt, cnt - 2).omegamax]

calc_omegamax(ty, ss, masks, mf, ns0, om0) ==
    IF ss < 1 THEN [num_snps |-> ns0, omegamax |-> om0]
    ELSE [num_snps |-> [i \in DOMAIN masks |-> OmegaPop(ty, ss, masks[i], mf).num_snps],
          omegamax |-> [i \in DOMAIN masks |-> OmegaPop(ty, ss, masks[i], mf).omegamax]]

(***************************************************************************)
(* calc_wall                                                               *)
(***************************************************************************)
\* one pass of the body of the site/population loops, for site i and
\* population j; last_type is the one variable shared by all populations
WallVisit(w, type, complem, mask, j) ==
    IF (type # {}) /\ (type # mask)
    THEN IF w.num_snps[j] = 0
         THEN [w EXCEPT !.uniq_part_types[j] = @ \cup {type},
                        !.last_type = type,
                        !.num_snps[j] = @ + 1]
         ELSE LET congruent == (type = w.last_type) \/ (complem = w.last_type)
                  fresh == (type \notin w.uniq_part_types[j])
                           /\ (complem \notin w.uniq_part_types[j])
              IN  [w EXCEPT !.num_congruent[j] = IF congruent THEN @ + 1 ELSE @,
                            !.uniq_part_types[j] = IF congruent /\ fresh
                                                   THEN @ \cup {type} ELSE @,
                            !.num_part[j] = IF congruent /\ fresh THEN @ + 1 ELSE @,
                            !.num_snps[j] = @ + 1,
                            !.last_type = type]
    ELSE w

RECURSIVE WallScan(_, _, _, _)
\* the state of calc_wall after the first t passes (site t / npops,
\* population t % npops), populations being numbered from 0
WallScan(ty, masks, ns0, t) ==
    LET npops == Cardinality(DOMAIN masks)
    IN  IF t = 0
        THEN [last_type |-> {},
              num_snps |-> ns0,
              num_congruent |-> [j \in DOMAIN masks |-> 0],
              num_part |-> [j \in DOMAIN masks |-> 0],
              uniq_part_types |-> [j \in DOMAIN masks |-> {}]]
        ELSE LET i == (t - 1) \div npops
                 j == (t - 1) % npops
             IN  WallVisit(WallScan(ty, masks, ns0, t - 1),
                           ty[i] \cap masks[j], masks[j] \ ty[i], masks[j], j)

calc_wall(ty, ss, masks, ns0, wb0, wq0) ==
    IF ss < 1 THEN [num_snps |-> ns0, wallb |-> wb0, wallq |-> wq0]
    ELSE LET w == WallScan(ty, masks, ns0, ss * Cardinality(DOMAIN masks))
         IN  [num_snps |-> w.num_snps,
              wallb |-> [i \in DOMAIN masks |->
                            DDiv(DInt(w.num_congruent[i]), DInt(w.num_snps[i] - 1))],
              wallq |-> [i \in DOMAIN masks |->
                            DDiv(DInt(w.num_congruent[i] + w.num_part[i]),
                                 DInt(w.num_snps[i]))]]

(***************************************************************************)
(* print_ld: the fields written for each population, S[pop] and the        *)
(* statistic columns; a column is a double or the text NA                  *)
(***************************************************************************)
NA == [kind |-> "NA"]

print_ld(outp, ms, nsn, z, om, wb, wq) ==
    [i \in DOMAIN nsn |->
        [S |-> nsn[i],
         stat |-> IF nsn[i] >= ms
                  THEN (IF outp = 1 THEN <<om[i]>>
                        ELSE IF outp = 2 THEN <<wb[i], wq[i]>>
                        ELSE <<z[i]>>)
                  ELSE (IF outp = 2 THEN <<NA, NA>> ELSE <<NA>>)]]

(***************************************************************************)
(* Inputs of the function-level specifications                             *)
(***************************************************************************)
\* likelihood values, in thousandths: 0, 1.501, 65536.0
LikVals == {0, 1501, 65536000}
\* read depths handed to gl2cns (unsigned short)
DepthVals == {0, 300, 65535}

Pairs == {PairIndex(PairOrder[n]) : n \in 1 .. Len(PairOrder)}

\* the symmetric 4x4 matrix errmod_cal fills, from its upper triangle
SymIndex(x) ==
    LET i == x \div NBASES
        j == x % NBASES
    IN  IF i <= j THEN x ELSE j * NBASES + i

QMatrices == {[x \in 0 .. (NBASES * NBASES - 1) |-> u[SymIndex(x)]] : u \in [Pairs -> LikVals]}

NoCalls == [i \in Samples |-> ZeroWord]
NoQ == [x \in 0 .. (NBASES * NBASES - 1) |-> 0]

\* the error model is not in use
NoErrmod ==
    /\ depcorr = [kind |-> "num", n |-> 0, d |-> 1] /\ fk = <<>>
    /\ bases = <<>> /\ used = {} /\ aux_c = <<>> /\ lik = <<>>

\* no driver is running: the options are the defaults of the constructor
\* and there is no region, no window and no column
NoRun ==
    /\ derived_type = "LD" /\ flag = {} /\ output = 0
    /\ bad_alloc = FALSE
    /\ outidx = 0 /\ outpop = 0
    /\ min_snps = 10 /\ min_freq = 1 /\ min_pop = 100 /\ win_size = 0
    /\ sm = <<>>
    /\ beg = 0 /\ end = 0 /\ num_windows = 0 /\ cw = 0 /\ t_beg = 0 /\ t_end = 0
    /\ pos = 0
    /\ pop_mask = <<>> /\ types = <<>> /\ segsites = 0 /\ num_sites = 0
    /\ pop_cov = <<>> /\ ncov = <<>>
    /\ num_snps = <<>> /\ zns = <<>> /\ omegamax = <<>> /\ wallb = <<>> /\ wallq = <<>>
    /\ ns = <<>> /\ td = <<>> /\ fwh = <<>> /\ out = <<>>
    /\ sample_cov = {} /\ fq = 0 /\ steps = <<>>

(***************************************************************************)
(* Specification of gl2cns as a function of (q, k)                         *)
(***************************************************************************)
InitGl2cns ==
    /\ pc = "input"
    /\ q \in QMatrices
    /\ k \in DepthVals
    /\ cb = NoCalls
    /\ cb0 = NoCalls
    /\ ref = "A"
    /\ ret = ZeroWord
    /\ NoRun
    /\ NoErrmod

CallGl2cns ==
    /\ pc = "input"
    /\ pc' = "gl2cns"
    /\ ret' = gl2cns(q, k)
    /\ UNCHANGED <<q, k, cb, cb0, ref, runVars>>

NextGl2cns == CallGl2cns

SpecGl2cns == InitGl2cns /\ [][NextGl2cns]_vars

(***************************************************************************)
(* What the claims say of gl2cns                                           *)
(***************************************************************************)
SetMin(S) == CHOOSE x \in S : \A y \in S : x <= y

MinCost(qq) == SetMin({qq[p] : p \in Pairs})

\* the second-smallest of the 10 costs, counted with multiplicity
SecondCost(qq) ==
    IF Cardinality({p \in Pairs : qq[p] = MinCost(qq)}) >= 2
    THEN MinCost(qq)
    ELSE SetMin({qq[p] : p \in Pairs} \ {MinCost(qq)})

\* the gap rounded to the nearest integer
RoundedGap(qq) == ((SecondCost(qq) - MinCost(qq)) + 500) \div 1000

ClampedScore(qq) == IF RoundedGap(qq) > B16 - 1 THEN B16 - 1 ELSE RoundedGap(qq)

\* C1: the word returned by gl2cns decodes to the packed values: depth field = k,
\* genotype field = a minimum-cost pair i<<2|j with i <= j, confidence field = the
\* confidence score, and the flag bits and the RMS field are zero.
C1_RoundTrip ==
    pc = "gl2cns" =>
        /\ ret.num_reads = k
        /\ ret.genotype \in Pairs
        /\ q[ret.genotype] = MinCost(q)
        /\ ret.snp_quality = ClampedScore(q)
        /\ ret.flags = 0
        /\ ret.rmsQ = 0

\* C2: the confidence field holds min(round(gap), 65535) and nothing is carried
\* into the RMS field, for every input, gaps above 65535 included.
C2_ScoreClamped ==
    pc = "gl2cns" =>
        /\ ret.snp_quality = ClampedScore(q)
        /\ ret.rmsQ = 0

\* the same two statements for the inputs whose gap fits 16 bits
GapFits == RoundedGap(q) <= B16 - 1
Gl2cnsExactWhenGapFits == (pc = "gl2cns" /\ GapFits) => (C1_RoundTrip /\ C2_ScoreClamped)

(***************************************************************************)
(* Specification of qualFilter, cleanHeterozygotes and segBase as          *)
(* functions of an array of call words (and the reference base)            *)
(***************************************************************************)
WordSet(F, G, D, S, R) ==
    [flags : F, genotype : G, num_reads : D, snp_quality : S, rmsQ : R]

\* call words around the thresholds of the quality filter
QFWords == WordSet({0, 2}, {0, 5}, {min_depth - 1, min_depth, max_depth, max_depth + 1},
                   {min_snpQ}, {min_rmsQ - 1, min_rmsQ})
\* every genotype byte gl2cns or a caller can pack, on both sides of min_snpQ
CHWords == WordSet({0}, 0 .. (NBASES * NBASES - 1), {10}, {min_snpQ - 1, min_snpQ}, {30})
\* the four homozygotes and a heterozygote, on both sides of min_snpQ
SBWords == WordSet({0}, {0, 5, 10, 15, 1}, {0, 10}, {min_snpQ - 1, min_snpQ}, {30})

RefBases == {Bases[a] : a \in 1 .. NBASES}

InitCalls ==
    /\ q = NoQ
    /\ k = 0
    /\ ret = 0
    /\ \/ pc = "inQualFilter" /\ cb \in [Samples -> QFWords] /\ ref = "A"
       \/ pc = "inClean" /\ cb \in [Samples -> CHWords] /\ ref \in RefBases
       \/ pc = "inSegBase" /\ cb \in [Samples -> SBWords] /\ ref \in RefBases
    /\ cb0 = cb
    /\ NoRun
    /\ NoErrmod

CallQualFilter ==
    /\ pc = "inQualFilter"
    /\ pc' = "qualFilter"
    /\ cb0' = cb
    /\ cb' = qualFilter(cb).cb
    /\ ret' = qualFilter(cb).coverage
    /\ UNCHANGED <<q, k, ref, runVars>>

CallCleanHeterozygotes ==
    /\ pc = "inClean"
    /\ pc' = "cleanHeterozygotes"
    /\ cb0' = cb
    /\ cb' = cleanHeterozygotes(cb, ref)
    /\ UNCHANGED <<q, k, ref, ret, runVars>>

CallSegBase ==
    /\ pc = "inSegBase"
    /\ pc' = "segBase"
    /\ cb0' = cb
    /\ cb' = segBase(cb, ref).cb
    /\ ret' = segBase(cb, ref).fq
    /\ UNCHANGED <<q, k, ref, runVars>>

NextCalls == CallQualFilter \/ CallCleanHeterozygotes \/ CallSegBase

SpecCalls == InitCalls /\ [][NextCalls]_vars

(***************************************************************************)
(* What the claims say of qualFilter, cleanHeterozygotes and segBase       *)
(***************************************************************************)
\* C3: bit i of the mask returned by qualFilter is set, and bit 0 of cb[i] is set,
\* iff rmsQ >= min_rmsQ and min_depth <= depth <= max_depth; the mask has no bit at
\* a position >= num_samples and no other bit of a call word changes.
C3_QualFilter ==
    pc = "qualFilter" =>
        /\ ret \subseteq Samples
        /\ \A i \in Samples :
            LET passes == /\ cb0[i].rmsQ >= min_rmsQ
                          /\ min_depth <= cb0[i].num_reads
                          /\ cb0[i].num_reads <= max_depth
            IN  /\ (i \in ret) <=> passes
                /\ (cb[i].flags % 2 = 1) <=> passes
                /\ cb[i].flags \div 2 = cb0[i].flags \div 2
                /\ cb[i] = [cb0[i] EXCEPT !.flags = cb[i].flags]

C3_Witness ==
    /\ pc = "qualFilter"
    /\ \E i, j \in Samples :
        /\ i \in ret /\ cb[i].flags % 2 = 1 /\ cb0[i].flags % 2 = 0
        /\ j \notin ret /\ cb0[j].num_reads > max_depth

\* C4: a call whose alleles differ on entry of cleanHeterozygotes is homozygous on
\* exit, whatever the two alleles: for the non-reference allele when the SNP
\* confidence is >= min_snpq, for the reference allele when it is below.
C4_CleanHomozygous ==
    pc = "cleanHeterozygotes" =>
        \A i \in Samples :
            (Allele1(cb0[i]) # Allele2(cb0[i])) =>
                /\ Allele1(cb[i]) = Allele2(cb[i])
                /\ IF cb0[i].snp_quality >= min_snpQ
                   THEN /\ Allele1(cb[i]) # iupac_rev(ref)
                        /\ Allele1(cb[i]) \in {Allele1(cb0[i]), Allele2(cb0[i])}
                   ELSE Allele1(cb[i]) = iupac_rev(ref)

\* the same statement for the heterozygotes one of whose alleles is the reference
CleanWhenOneAlleleIsRef ==
    pc = "cleanHeterozygotes" =>
        \A i \in Samples :
            (/\ Allele1(cb0[i]) # Allele2(cb0[i])
             /\ iupac_rev(ref) \in {Allele1(cb0[i]), Allele2(cb0[i])}) =>
                /\ Allele1(cb[i]) = Allele2(cb[i])
                /\ IF cb0[i].snp_quality >= min_snpQ
                   THEN /\ Allele1(cb[i]) # iupac_rev(ref)
                        /\ Allele1(cb[i]) \in {Allele1(cb0[i]), Allele2(cb0[i])}
                   ELSE Allele1(cb[i]) = iupac_rev(ref)

\* the samples that are homozygous for base a with SNP confidence >= min_snpq
HighConfHom(c, a) ==
    {i \in DOMAIN c : /\ (c[i].genotype \div 4) % 4 = a
                      /\ c[i].genotype % 4 = a
                      /\ c[i].snp_quality >= min_snpQ}

\* the distinct non-reference bases among the high-confidence homozygous calls
NonRefBases(c, r) ==
    {a \in 0 .. (NBASES - 1) : Bases[a + 1] # r /\ HighConfHom(c, a) # {}}

\* C5: segBase returns the multi-allelic rejection signal -1, never a positive
\* count, when two or more distinct non-reference bases occur among the homozygous
\* calls with SNP confidence >= min_snpq.
C5_MultiAllelicRejected ==
    pc = "segBase" => (Cardinality(NonRefBases(cb0, ref)) >= 2 => ret = -1)

C5_Witness ==
    /\ pc = "segBase"
    /\ Cardinality(NonRefBases(cb0, ref)) >= 2
    /\ ret = -1

\* C6: a homozygous non-reference sample with SNP confidence < min_snpq leaves
\* segBase homozygous for the reference allele, not tallied (variant bit clear), its
\* depth, confidence, RMS and flag fields unchanged.
C6_LowConfRevert ==
    pc = "segBase" =>
        \A i \in Samples :
            (/\ Allele1(cb0[i]) = Allele2(cb0[i])
             /\ Allele1(cb0[i]) # iupac_rev(ref)
             /\ cb0[i].snp_quality < min_snpQ) =>
                /\ cb[i].genotype = iupac_rev(ref) * NBASES + iupac_rev(ref)
                /\ cb[i].num_reads = cb0[i].num_reads
                /\ cb[i].snp_quality = cb0[i].snp_quality
                /\ cb[i].rmsQ = cb0[i].rmsQ
                /\ cb[i].flags = cb0[i].flags

\* the revert does what C6 says when the low-confidence call is homozygous A
RevertRightForA ==
    pc = "segBase" =>
        \A i \in Samples :
            (/\ cb0[i].genotype = 0
             /\ ref # "A"
             /\ cb0[i].snp_quality < min_snpQ) =>
                cb[i] = [cb0[i] EXCEPT !.genotype = iupac_rev(ref) * NBASES + iupac_rev(ref)]

\* C7: with exactly one distinct non-reference base, segBase returns the number of
\* samples homozygous for it with SNP confidence >= min_snpq, and exactly these
\* samples have the variant bit set; with none it returns 0 and sets no variant bit.
C7_SegBaseResult ==
    pc = "segBase" =>
        LET D == NonRefBases(cb0, ref)
            V == {i \in Samples : (cb[i].flags \div 2) % 2 = 1}
        IN  /\ Cardinality(D) = 1 =>
                \E a \in D : ret = Cardinality(HighConfHom(cb0, a)) /\ V = HighConfHom(cb0, a)
            /\ D = {} => (ret = 0 /\ V = {})

C7_Witness ==
    /\ pc = "segBase"
    /\ Cardinality(NonRefBases(cb0, ref)) = 1
    /\ ret = NumSamples
    /\ \A i \in Samples : (cb[i].flags \div 2) % 2 = 1


(***************************************************************************)
(* The window of a run: init_ld / init_sfs, assign_pops, the statistics    *)
(* and the printed line                                                    *)
(***************************************************************************)
\* bounds of the windows whose statistics are computed
LDSamples == 4
MaxSites == 3

\* the -n values tried: below the intended minimum, at it, and the default
MinSnpsVals == {1, 2, 10}

\* the sample data bam_smpl_add leaves: n samples in populations of given masks
SmplData(n, masks) == [n |-> n, npops |-> Cardinality(DOMAIN masks), popul |-> masks]

\* all samples in one population, or sample 0 apart from the others
OnePop(n) == SmplData(n, [i \in 0 .. 0 |-> 0 .. (n - 1)])
TwoPops(n, h) == SmplData(n, [i \in 0 .. 1 |-> IF i = 0 THEN 0 .. (h - 1) ELSE h .. (n - 1)])

\* assign_pops: the mask of each population
assign_pops(s) == s.popul

\* the members zero-allocated by init_ld for a window of the given length
init_ld(length, npops, outp) ==
    [segsites |-> 0,
     types |-> Arr(length, {}),
     pop_mask |-> Arr(npops, {}),
     pop_cov |-> Arr(length, {}),
     num_snps |-> Arr(npops, 0),
     zns |-> IF outp \notin {1, 2} THEN Arr(npops, DZero) ELSE <<>>,
     omegamax |-> IF outp = 1 THEN Arr(npops, DZero) ELSE <<>>,
     wallb |-> IF outp = 2 THEN Arr(npops, DZero) ELSE <<>>,
     wallq |-> IF outp = 2 THEN Arr(npops, DZero) ELSE <<>>]

\* (t->*fp[t->output])() for output = 0
CalcZns ==
    /\ pc = "calc" /\ derived_type = "LD" /\ output = 0
    /\ LET r == calc_zns(types, segsites, pop_mask, min_freq, num_snps, zns)
       IN  num_snps' = r.num_snps /\ zns' = r.zns
    /\ pc' = "print"
    /\ UNCHANGED <<cb, ref, fnVars, optVars, emVars, bad_alloc, mainVars, pos, winVars, omegamax, wallb,
                   wallq, ns, td, fwh, out, siteVars>>

\* (t->*fp[t->output])() for output = 1
CalcOmegamax ==
    /\ pc = "calc" /\ derived_type = "LD" /\ output = 1
    /\ LET r == calc_omegamax(types, segsites, pop_mask, min_freq, num_snps, omegamax)
       IN  num_snps' = r.num_snps /\ omegamax' = r.omegamax
    /\ pc' = "print"
    /\ UNCHANGED <<cb, ref, fnVars, optVars, emVars, bad_alloc, mainVars, pos, winVars, zns, wallb,
                   wallq, ns, td, fwh, out, siteVars>>

\* (t->*fp[t->output])() for output = 2
CalcWall ==
    /\ pc = "calc" /\ derived_type = "LD" /\ output = 2
    /\ LET r == calc_wall(types, segsites, pop_mask, num_snps, wallb, wallq)
       IN  num_snps' = r.num_snps /\ wallb' = r.wallb /\ wallq' = r.wallq
    /\ pc' = "print"
    /\ UNCHANGED <<cb, ref, fnVars, optVars, emVars, bad_alloc, mainVars, pos, winVars, zns, omegamax,
                   ns, td, fwh, out, siteVars>>

\* print_ld and destroy_ld, and the step of the window loop
PrintLd ==
    /\ pc = "print" /\ derived_type = "LD"
    /\ out' = Append(out, [beg |-> t_beg + 1, end |-> t_end + 1, num_sites |-> num_sites,
                           pops |-> print_ld(output, min_snps, num_snps, zns, omegamax,
                                             wallb, wallq)])
    /\ wallb' = IF output = 2 THEN Arr(sm.npops, DZero) ELSE wallb
    /\ wallq' = IF output = 2 THEN Arr(sm.npops, DZero) ELSE wallq
    /\ cw' = cw + 1
    /\ pc' = "main"
    /\ UNCHANGED <<cb, ref, fnVars, optVars, emVars, bad_alloc, beg, end, num_windows, t_beg, t_end, pos,
                   winVars, num_snps, zns, omegamax, ns, td, fwh, siteVars>>

(***************************************************************************)
(* Specification of the LD statistics of one window: the window buffer is  *)
(* any buffer the pileup of MaxSites positions can leave                   *)
(***************************************************************************)
\* the site types a recorded segregating site can have: with one population
\* the site is recorded only if every sample passed the filter, and then a
\* counted variant sample has its bit set
SiteTypes(s) == {x \in SUBSET (0 .. (s.n - 1)) : (x # {}) \/ (s.npops > 1)}

InitLD ==
    /\ pc = "calc"
    /\ q = NoQ /\ k = 0 /\ ret = 0 /\ cb = <<>> /\ cb0 = <<>> /\ ref = "A"
    /\ derived_type = "LD" /\ flag = {} /\ min_pop = 100
    /\ NoErrmod
    /\ bad_alloc = FALSE
    /\ outidx = 0 /\ outpop = 0
    /\ output \in 0 .. 2
    /\ min_snps \in MinSnpsVals
    /\ min_freq \in {1, 2}
    /\ sm \in {OnePop(LDSamples), TwoPops(LDSamples, LDSamples \div 2)}
    /\ beg = 1 /\ end = 1 + MaxSites /\ win_size = MaxSites
    /\ num_windows = 1 /\ cw = 0 /\ t_beg = beg /\ t_end = end
    /\ pos = t_end
    /\ segsites \in 0 .. MaxSites
    /\ num_sites = segsites
    /\ \E ty \in [0 .. (segsites - 1) -> SiteTypes(sm)] :
          types = [i \in 0 .. (MaxSites - 1) |-> IF i < segsites THEN ty[i] ELSE {}]
    /\ pop_mask = assign_pops(sm)
    /\ pop_cov = [i \in 0 .. (MaxSites - 1) |->
                    IF i >= segsites THEN {}
                    ELSE IF types[i] = {} THEN {0} ELSE 0 .. (sm.npops - 1)]
    /\ ncov = <<>> /\ ns = <<>> /\ td = <<>> /\ fwh = <<>> /\ out = <<>>
    /\ num_snps = init_ld(MaxSites, sm.npops, output).num_snps
    /\ zns = init_ld(MaxSites, sm.npops, output).zns
    /\ omegamax = init_ld(MaxSites, sm.npops, output).omegamax
    /\ wallb = init_ld(MaxSites, sm.npops, output).wallb
    /\ wallq = init_ld(MaxSites, sm.npops, output).wallq
    /\ sample_cov = {} /\ fq = 0 /\ steps = <<>>

NextLD == CalcZns \/ CalcOmegamax \/ CalcWall \/ PrintLd

SpecLD == InitLD /\ [][NextLD]_vars

(***************************************************************************)
(* Claims about the printed LD statistics                                  *)
(***************************************************************************)
\* the number of sites of the window buffer that qualify as SNPs of
\* population i: for Zns and omega-max the derived count lies in
\* [min_freq, n - min_freq]; for Wall's statistics the site is polymorphic
QualifyingSnps(i) ==
    Cardinality({j \in 0 .. (segsites - 1) :
        LET x == Cardinality(types[j] \cap pop_mask[i])
            n == Cardinality(pop_mask[i])
        IN  IF output = 2 THEN (x > 0) /\ (x < n)
            ELSE (x >= min_freq) /\ (x <= n - min_freq)})

LastLine == out[Len(out)]

\* C10: whatever min_snps is, a population with fewer than 2 qualifying SNPs in
\* the window has NA in every statistic column of the printed line
C10_NAWhenFewSnps ==
    (pc = "main" /\ Len(out) > 0) =>
        \A i \in DOMAIN pop_mask :
            QualifyingSnps(i) < 2 =>
                \A c \in DOMAIN LastLine.pops[i].stat : LastLine.pops[i].stat[c] = NA

\* the same for min_snps >= 2 only: the SNP count of calc_zns and
\* calc_omegamax is one more than the qualifying sites among the first
\* segsites-1, so it reaches 2 with a single qualifying site
NAWhenFewSnpsFromTwo == (min_snps >= 2) => C10_NAWhenFewSnps

\* a population with fewer than 2 qualifying SNPs can only have a number
\* printed if min_snps is below 2 or the SNP count of the line overstates
C10_NumberNeedsCount ==
    (pc = "main" /\ Len(out) > 0) =>
        \A i \in DOMAIN pop_mask :
            LastLine.pops[i].S < min_snps =>
                \A c \in DOMAIN LastLine.pops[i].stat : LastLine.pops[i].stat[c] = NA


(***************************************************************************)
(* The constant tables of sfsData and calc_sfs / print_sfs                 *)
(***************************************************************************)
\* the minimum fraction of aligned sites, in tenths
min_sites == 5

DNeg(x) == DMul(DInt(-1), x)
DSub(x, y) == DAdd(x, DNeg(y))

\* x / sqrt(r): exact when it is 0, infinite or a NaN, else kept as the
\* pair of x and r
DivSqrt(x, r) ==
    IF x.kind = "nan" \/ r.kind = "nan" THEN NaN
    ELSE IF r.kind = "inf" THEN (IF r.s < 0 \/ x.kind = "inf" THEN NaN ELSE DZero)
    ELSE IF r.n < 0 THEN NaN
    ELSE IF r.n = 0 THEN (IF x.kind = "inf" THEN x
                          ELSE IF x.n = 0 THEN NaN ELSE Inf(Sign(x)))
    ELSE IF x.kind = "inf" THEN x
    ELSE IF x.n = 0 THEN DZero
    ELSE [kind |-> "surd", x |-> x, r |-> r]

\* calc_a1, calc_a2: a1[0] = a1[1] = 1.0, else the sum of 1/j for j < i
a1(i) == IF i < 2 THEN DInt(1) ELSE DSum(LAMBDA j : Frac(1, j), 1, i - 1)
a2(i) == IF i < 2 THEN DInt(1) ELSE DSum(LAMBDA j : Frac(1, SQ(j)), 1, i - 1)

\* calc_e1
e1(i) ==
    IF i < 2 THEN DInt(1)
    ELSE LET b1 == Frac(i + 1, 3 * (i - 1))
         IN  DDiv(DSub(b1, DDiv(DInt(1), a1(i))), a1(i))

\* calc_e2
e2(i) ==
    IF i < 2 THEN DInt(1)
    ELSE LET b2 == Frac(2 * (SQ(i) + i + 3), 9 * i * (i - 1))
         IN  DDiv(DAdd(DSub(b2, DDiv(DInt(i + 2), DMul(a1(i), DInt(i)))),
                       DDiv(a2(i), DMul(a1(i), a1(i)))),
                  DAdd(DMul(a1(i), a1(i)), a2(i)))

\* the cells [n][i] the loops of calc_dw and calc_hw assign:
\* for (n=2; n <= sm->n; ++n) for (i=n; i <= sm->n; ++i)
TableAssigned(N, n, i) == (2 <= n) /\ (n <= N) /\ (n <= i) /\ (i <= N)

\* calc_dw: the (N+1) x (N+1) table is zero-allocated and the loops assign
\* dw[n][i] for n = 2 .. N and i = n .. N
dw(N, n, i) ==
    IF TableAssigned(N, n, i)
    THEN DSub(Frac(2 * i * (n - i), SQ(n - 1)), DDiv(DInt(1), a1(n)))
    ELSE DZero

\* calc_hw, with the same loops
hw(N, n, i) ==
    IF TableAssigned(N, n, i)
    THEN DSub(DDiv(DInt(1), a1(n)), Frac(i, n - 1))
    ELSE DZero

\* ns[] after the first loop of calc_sfs
SfsAligned(nsites, pcov, ns0) ==
    [j \in DOMAIN ns0 |-> ns0[j] + Cardinality({i \in 0 .. (nsites - 1) : j \in pcov[i]})]

\* ns[i] >= (unsigned long int)((end - beg) * min_sites), min_sites in tenths
SfsEnough(nsi, length) == nsi >= (length * min_sites) \div 10

\* freq of site j in population i
SfsFreq(ty, masks, nc, fl, oidx, opop, i, j) ==
    LET pop_type == ty[j] \cap masks[i]
    IN  IF ("BAM_OUTGROUP" \in fl) /\ (nc[opop][j] > 0) /\ (oidx \in ty[j])
        THEN nc[i][j] - bitcount64(pop_type)
        ELSE bitcount64(pop_type)

\* mutant: a site where every covered sample carries the derived allele is
\* counted too
SfsSites_NoUpperBound(ty, ss, masks, nc, fl, oidx, opop, i) ==
    {j \in 0 .. (ss - 1) : SfsFreq(ty, masks, nc, fl, oidx, opop, i, j) > 0}

\* the sites counted for population i: (freq > 0) && (freq < ncov[i][j])
SfsSites(ty, ss, masks, nc, fl, oidx, opop, i) ==
    {j \in 0 .. (ss - 1) :
        LET freq == SfsFreq(ty, masks, nc, fl, oidx, opop, i, j)
        IN  (freq > 0) /\ (freq < nc[i][j])}

\* the variance term of Fay and Wu's H for sample size n and s SNPs
FwhVar(n, s) ==
    DAdd(DDiv(DMul(DInt(n - 2), DDiv(DInt(s), a1(n))), DInt(6 * (n - 1))),
         DDiv(DMul(DDiv(DInt(s * (s - 1)), DAdd(DMul(a1(n), a1(n)), a2(n))),
                   DSub(DMul(DInt(18 * SQ(n) * (3 * n + 2)), a2(n + 1)),
                        DInt(88 * n * n * n + 9 * SQ(n) - 13 * n + 6))),
              DInt(9 * n * SQ(n - 1))))

\* the statistics of population i when it has enough aligned sites.  With no
\* site counted, n = (int)(0.0/0 + 0.4999) is undefined; whatever the tables
\* then hold at n, both sums are 0 and are divided by the root of 0 or NaN
SfsPop(ty, ss, masks, nc, fl, oidx, opop, N, td0, fwh0, i) ==
    LET sites == SfsSites(ty, ss, masks, nc, fl, oidx, opop, i)
        freq(j) == SfsFreq(ty, masks, nc, fl, oidx, opop, i, j)
        Sum(F(_)) == DSum(LAMBDA j : IF j \in sites THEN F(j) ELSE DZero, 0, ss - 1)
        tdsum == DAdd(td0, Sum(LAMBDA j : dw(N, nc[i][j], freq(j))))
        fwhsum == DAdd(fwh0, Sum(LAMBDA j : hw(N, nc[i][j], freq(j))))
        avgn == Cardinality({<<j, c>> \in (0 .. (ss - 1)) \X (1 .. N) :
                                j \in sites /\ c <= nc[i][j]})
        s == Cardinality(sites)
        n == (avgn * 10000 + 4999 * s) \div (10000 * s)
    IN  IF s = 0
        THEN [num_snps |-> 0, td |-> NaN, fwh |-> NaN, undefined |-> TRUE]
        ELSE [num_snps |-> s,
              td |-> DivSqrt(tdsum, DAdd(DMul(e1(n), DInt(s)), DMul(e2(n), DInt(s * (s - 1))))),
              fwh |-> DivSqrt(fwhsum, FwhVar(n, s)),
              undefined |-> FALSE]

calc_sfs(ty, ss, nsites, pcov, masks, nc, fl, oidx, opop, N, length, ns0, nsnp0, td0, fwh0) ==
    LET aligned == SfsAligned(nsites, pcov, ns0)
        enough == {i \in DOMAIN masks : SfsEnough(aligned[i], length)}
        P == [i \in enough |->
                SfsPop(ty, ss, masks, nc, fl, oidx, opop, N, td0[i], fwh0[i], i)]
    IN  [ns |-> aligned,
         num_snps |-> [i \in DOMAIN masks |-> IF i \in enough THEN P[i].num_snps ELSE nsnp0[i]],
         td |-> [i \in DOMAIN masks |-> IF i \in enough THEN P[i].td ELSE NaN],
         fwh |-> [i \in DOMAIN masks |-> IF i \in enough THEN P[i].fwh ELSE NaN],
         undefined |-> \E i \in enough : P[i].undefined]

\* print_sfs: the fields written for each population
print_sfs(nsn, d, h) ==
    [i \in DOMAIN nsn |->
        [ns |-> nsn[i],
         D |-> IF d[i].kind = "nan" THEN NA ELSE d[i],
         H |-> IF h[i].kind = "nan" THEN NA ELSE h[i]]]

(***************************************************************************)
(* The drivers main_ld / main_sfs and their pileup handlers make_ld /      *)
(* make_sfs                                                                *)
(***************************************************************************)
\* the window unit of the -w option (1000 in popbam.h), scaled down
KB == 2
\* first position and length of the region analysed without -w
RegionBeg == 1
RegionLen == 3

\* ((end - beg) - 1) / t->win_size
NumWindows(b, e, w) == ((e - b) - 1) \div w

\* the interval bam_parse_region returns for the window string
\* "beg + cw*win_size + 1" - "(cw + 1)*win_size + (beg - 1)"
WindowCoord(b, w, c) ==
    LET first == b + (c * w) + 1
        last == ((c + 1) * w) + (b - 1)
    IN  [beg |-> IF first > 0 THEN first - 1 ELSE first, end |-> last]

\* the reference sequence fetched by faidx_fetch_seq
ref_base(p) == Bases[(p % 2) + 1]

\* a call word as call_base leaves it: no flag set
Call(g, d, s, r) == [flags |-> 0, genotype |-> g, num_reads |-> d, snp_quality |-> s, rmsQ |-> r]

\* the calls of a sample the columns of the model contain: the homozygotes
\* AA, CC, GG and the heterozygote AC at full quality, CC at a depth below
\* min_depth, and CC at a SNP quality below min_snpQ
ColumnWords ==
    {Call(0, 10, 40, 30), Call(5, 10, 40, 30), Call(10, 10, 40, 30), Call(1, 10, 40, 30),
     Call(5, min_depth - 1, 40, 30), Call(5, 10, min_snpQ - 1, 30)}

\* cal_site_type: bit i is set iff (cb[i] & 3) == 3
cal_site_type(c) == {i \in DOMAIN c : (c[i].flags % 4) = 3}

\* the members zero-allocated by init_sfs for a window of the given length
init_sfs(length, npops) ==
    [segsites |-> 0,
     types |-> Arr(length, {}),
     ns |-> Arr(npops, 0),
     ncov |-> Arr(npops, Arr(length, 0)),
     pop_mask |-> Arr(npops, {}),
     pop_cov |-> Arr(length, {}),
     num_snps |-> Arr(npops, 0),
     td |-> Arr(npops, DZero),
     fwh |-> Arr(npops, DZero)]

\* the call that follows a call of make_ld, in the order of its statements
make_ld_next(step) ==
    IF step = "call_base" THEN "clean_heterozygotes"
    ELSE IF step = "clean_heterozygotes" THEN "segbase"
    ELSE IF step = "segbase" THEN "qfilter"
    ELSE "record"

\* mutant: the quality filter runs right after the call
make_sfs_next_FilterFirst(step) ==
    IF step = "call_base" THEN "qfilter"
    ELSE IF step = "qfilter" THEN "clean_heterozygotes"
    ELSE IF step = "clean_heterozygotes" THEN "segbase"
    ELSE "record"

\* the call that follows a call of make_sfs, in the order of its statements
make_sfs_next(step) ==
    IF step = "call_base" THEN "clean_heterozygotes"
    ELSE IF step = "clean_heterozygotes" THEN "segbase"
    ELSE IF step = "segbase" THEN "qfilter"
    ELSE "record"

NextCall(step) == IF derived_type = "LD" THEN make_ld_next(step) ELSE make_sfs_next(step)

\* mutant: the position t->end is taken as a position of the window
InWindow_Inclusive(p) == (t_beg <= p) /\ (t_end >= p)

\* (t->beg <= (int)pos) && (t->end > (int)pos)
InWindow(p) == (t_beg <= p) /\ (t_end > p)

\* make_ld: ncov == t->pop_nsmpl[i]
PopCoveredLD(cov, mask) == bitcount64(cov \cap mask) = Cardinality(mask)

\* make_sfs: req = (unsigned int)((t->min_pop * t->pop_nsmpl[i]) + 0.4999), with
\* min_pop in hundredths
PopReq(mask) == ((min_pop * Cardinality(mask) * 100) + 4999) \div 10000
PopCoveredSFS(cov, mask) == bitcount64(cov \cap mask) >= PopReq(mask)

\* mutant: a multi-allelic site is recorded too
IsSegregating_NonZero(f) == f # 0

\* if (fq > 0)
IsSegregating(f) == f > 0

InitMain ==
    /\ q = NoQ /\ k = 0 /\ ret = 0 /\ cb = <<>> /\ cb0 = <<>> /\ ref = "A"
    /\ derived_type \in {"LD", "SFS"}
    /\ NoErrmod
    /\ bad_alloc = FALSE
    /\ outidx = 0 /\ outpop = 0
    /\ flag \in {{}, {"BAM_WINDOW"}}
                \cup (IF derived_type = "SFS" THEN {{"BAM_OUTGROUP"}} ELSE {})
    /\ pc = IF "BAM_OUTGROUP" \in flag THEN "lookup" ELSE "main"
    /\ output \in (IF derived_type = "LD" THEN 0 .. 2 ELSE {0})
    /\ min_snps = 2
    /\ min_freq = 1
    /\ min_pop \in (IF derived_type = "SFS" THEN {50, 100} ELSE {100})
    /\ sm \in {OnePop(NumSamples), TwoPops(NumSamples, 1)}
    /\ ("BAM_OUTGROUP" \in flag) => (sm.npops = 2 /\ min_pop = 100)
    /\ beg = RegionBeg
    /\ end = beg + (IF "BAM_WINDOW" \in flag THEN 2 * KB + 1 ELSE RegionLen)
    /\ win_size = IF "BAM_WINDOW" \in flag THEN KB ELSE end - beg
    /\ num_windows = IF "BAM_WINDOW" \in flag THEN NumWindows(beg, end, win_size) ELSE 1
    /\ cw = 0 /\ t_beg = 0 /\ t_end = 0 /\ pos = 0
    /\ pop_mask = <<>> /\ types = <<>> /\ segsites = 0 /\ num_sites = 0
    /\ pop_cov = <<>> /\ ncov = <<>>
    /\ num_snps = <<>> /\ zns = <<>> /\ omegamax = <<>> /\ wallb = <<>> /\ wallq = <<>>
    /\ ns = <<>> /\ td = <<>> /\ fwh = <<>> /\ out = <<>>
    /\ sample_cov = {} /\ fq = 0 /\ steps = <<>>

\* the head of the window loop: the window interval, num_sites = 0, init_ld or
\* init_sfs, assign_pops, and the start of bam_fetch
StartWindow ==
    /\ pc = "main" /\ cw < num_windows
    /\ LET w == IF "BAM_WINDOW" \in flag THEN WindowCoord(beg, win_size, cw)
                ELSE [beg |-> beg, end |-> end]
           length == w.end - w.beg
           ld == init_ld(length, sm.npops, output)
           sfs == init_sfs(length, sm.npops)
       IN  /\ t_beg' = w.beg /\ t_end' = w.end
           /\ pos' = IF w.beg > 0 THEN w.beg - 1 ELSE 0
           /\ IF derived_type = "LD"
              THEN /\ types' = ld.types /\ pop_cov' = ld.pop_cov /\ num_snps' = ld.num_snps
                   /\ zns' = ld.zns /\ omegamax' = ld.omegamax
                   /\ wallb' = ld.wallb /\ wallq' = ld.wallq
                   /\ UNCHANGED <<ns, ncov, td, fwh>>
              ELSE /\ types' = sfs.types /\ pop_cov' = sfs.pop_cov
                   /\ num_snps' = sfs.num_snps /\ ns' = sfs.ns /\ ncov' = sfs.ncov
                   /\ td' = sfs.td /\ fwh' = sfs.fwh
                   /\ UNCHANGED <<zns, omegamax, wallb, wallq>>
    /\ num_sites' = 0
    /\ segsites' = 0
    /\ pop_mask' = assign_pops(sm)
    /\ pc' = "fetch"
    /\ bad_alloc' = FALSE
    /\ UNCHANGED <<cb, ref, fnVars, optVars, emVars, beg, end, num_windows, cw, out, siteVars>>

\* no read covers the position: the handler is not called for it
NoColumn ==
    /\ pc = "fetch" /\ pos <= t_end
    /\ pos' = pos + 1
    /\ UNCHANGED <<pc, cb, ref, fnVars, optVars, emVars, bad_alloc, mainVars, winVars, statVars, out, siteVars>>

\* the handler called for a position outside the window returns at once
ColumnOutside ==
    /\ pc = "fetch" /\ pos <= t_end /\ ~InWindow(pos)
    /\ fq' = 0 /\ sample_cov' = {} /\ steps' = <<>>
    /\ pos' = pos + 1
    /\ UNCHANGED <<pc, cb, ref, fnVars, optVars, emVars, bad_alloc, mainVars, winVars, statVars, out>>

\* the handler called for a position of the window: call_base
CallBase ==
    /\ pc = "fetch" /\ pos <= t_end /\ InWindow(pos)
    /\ fq' = 0 /\ sample_cov' = {}
    /\ cb' \in [0 .. (sm.n - 1) -> ColumnWords]
    /\ ref' = ref_base(pos)
    /\ steps' = <<"call_base">>
    /\ pc' = NextCall("call_base")
    /\ UNCHANGED <<fnVars, optVars, emVars, bad_alloc, mainVars, pos, winVars, statVars, out>>

\* if (!(t->flag & BAM_HETEROZYGOTE)) clean_heterozygotes(...)
CleanStep ==
    /\ pc = "clean_heterozygotes"
    /\ IF "BAM_HETEROZYGOTE" \notin flag
       THEN cb' = cleanHeterozygotes(cb, ref) /\ steps' = Append(steps, "clean_heterozygotes")
       ELSE UNCHANGED <<cb, steps>>
    /\ pc' = NextCall("clean_heterozygotes")
    /\ UNCHANGED <<ref, fnVars, optVars, emVars, bad_alloc, mainVars, pos, winVars, statVars, out, sample_cov, fq>>

\* fq = segbase(...)
SegStep ==
    /\ pc = "segbase"
    /\ cb' = segBase(cb, ref).cb
    /\ fq' = segBase(cb, ref).fq
    /\ steps' = Append(steps, "segbase")
    /\ pc' = NextCall("segbase")
    /\ UNCHANGED <<ref, fnVars, optVars, emVars, bad_alloc, mainVars, pos, winVars, statVars, out, sample_cov>>

\* sample_cov = qfilter(...)
FilterStep ==
    /\ pc = "qfilter"
    /\ cb' = qualFilter(cb).cb
    /\ sample_cov' = qualFilter(cb).coverage
    /\ steps' = Append(steps, "qfilter")
    /\ pc' = NextCall("qfilter")
    /\ UNCHANGED <<ref, fnVars, optVars, emVars, bad_alloc, mainVars, pos, winVars, statVars, out, fq>>

\* the rest of make_ld: population coverage, the counters and the site type;
\* fq and sample_cov keep the values of the column until the next one
RecordLd ==
    /\ pc = "record" /\ derived_type = "LD"
    /\ LET covered == {i \in DOMAIN pop_mask : PopCoveredLD(sample_cov, pop_mask[i])}
       IN  /\ pop_cov' = [pop_cov EXCEPT ![num_sites] = @ \cup covered]
           /\ num_sites' = IF pop_cov'[num_sites] # {} THEN num_sites + 1 ELSE num_sites
           /\ IF pop_cov'[num_sites] # {} /\ IsSegregating(fq)
              THEN /\ types' = [types EXCEPT ![segsites] = cal_site_type(cb)]
                   /\ segsites' = segsites + 1
              ELSE UNCHANGED <<types, segsites>>
    /\ cb' = <<>>
    /\ pos' = pos + 1
    /\ pc' = "fetch"
    /\ UNCHANGED <<ref, fnVars, optVars, emVars, bad_alloc, mainVars, pop_mask, ncov, statVars, out, siteVars>>

\* the rest of make_sfs: as make_ld, with the coverage counts of the site
RecordSfs ==
    /\ pc = "record" /\ derived_type = "SFS"
    /\ LET covered == {i \in DOMAIN pop_mask : PopCoveredSFS(sample_cov, pop_mask[i])}
       IN  /\ pop_cov' = [pop_cov EXCEPT ![num_sites] = @ \cup covered]
           /\ num_sites' = IF pop_cov'[num_sites] # {} THEN num_sites + 1 ELSE num_sites
           /\ IF pop_cov'[num_sites] # {} /\ IsSegregating(fq)
              THEN /\ ncov' = [j \in DOMAIN ncov |->
                                 [ncov[j] EXCEPT ![segsites] =
                                     bitcount64(sample_cov \cap pop_mask[j])]]
                   /\ types' = [types EXCEPT ![segsites] = cal_site_type(cb)]
                   /\ segsites' = segsites + 1
              ELSE UNCHANGED <<types, segsites, ncov>>
    /\ cb' = <<>>
    /\ pos' = pos + 1
    /\ pc' = "fetch"
    /\ UNCHANGED <<ref, fnVars, optVars, emVars, bad_alloc, mainVars, pop_mask, statVars, out, siteVars>>

\* bam_fetch has delivered every column of the reads overlapping the window
EndFetch ==
    /\ pc = "fetch" /\ pos > t_end
    /\ pc' = "calc"
    /\ UNCHANGED <<cb, ref, fnVars, runVars>>

\* t.calc_sfs()
CalcSfs ==
    /\ pc = "calc" /\ derived_type = "SFS"
    /\ LET r == calc_sfs(types, segsites, num_sites, pop_cov, pop_mask, ncov, flag,
                         outidx, outpop, sm.n, t_end - t_beg, ns, num_snps, td, fwh)
       IN  ns' = r.ns /\ num_snps' = r.num_snps /\ td' = r.td /\ fwh' = r.fwh
    /\ pc' = "print"
    /\ UNCHANGED <<cb, ref, fnVars, optVars, emVars, bad_alloc, mainVars, pos, winVars, zns, omegamax,
                   wallb, wallq, out, siteVars>>

\* t.calc_sfs() when a population with enough aligned sites has no site
\* counted: the conversion of a NaN to int and the table reads at that index
\* can also end the program
CalcSfsFault ==
    /\ pc = "calc" /\ derived_type = "SFS"
    /\ calc_sfs(types, segsites, num_sites, pop_cov, pop_mask, ncov, flag,
                outidx, outpop, sm.n, t_end - t_beg, ns, num_snps, td, fwh).undefined
    /\ pc' = "fault"
    /\ UNCHANGED <<cb, ref, fnVars, runVars>>

\* print_sfs and destroy_sfs, and the step of the window loop
PrintSfs ==
    /\ pc = "print" /\ derived_type = "SFS"
    /\ out' = Append(out, [beg |-> t_beg + 1, end |-> t_end + 1,
                           pops |-> print_sfs(ns, td, fwh)])
    /\ cw' = cw + 1
    /\ pc' = "main"
    /\ UNCHANGED <<cb, ref, fnVars, optVars, emVars, bad_alloc, beg, end, num_windows, t_beg, t_end, pos,
                   winVars, statVars, siteVars>>

\* the end of the window loop
Finish ==
    /\ pc = "main" /\ cw >= num_windows
    /\ pc' = "done"
    /\ UNCHANGED <<cb, ref, fnVars, runVars>>

\* main_sfs with an outgroup, before the window loop: outidx is the index of
\* the sample named, then t.pop_mask[i] is tested for every population to
\* find outpop, and only then the run is aborted if no sample has the name.
\* pop_mask is allocated by init_sfs in the window loop only: the reads go
\* through a pointer that was never set, and either end the program or give
\* values that leave any population, or none, in outpop, which the constructor
\* does not set either
OutgroupLookup ==
    /\ pc = "lookup"
    /\ \E found \in BOOLEAN :
          \/ pc' = "fault" /\ UNCHANGED <<outidx, outpop>>
          \/ /\ outpop' \in 0 .. (sm.npops - 1)
             /\ IF found
                THEN outidx' \in 0 .. (sm.n - 1) /\ pc' = "main"
                ELSE outidx' = outidx /\ pc' = "abort"
    /\ UNCHANGED <<cb, ref, fnVars, derived_type, flag, output, min_snps, min_freq, min_pop,
                   win_size, sm, emVars, bad_alloc, mainVars, pos, winVars, statVars, out,
                   siteVars>>

\* the head of the window loop when the first new of init_ld / init_sfs throws:
\* the handler of bad_alloc writes a message and returns, every buffer pointer
\* keeps the value it had, and assign_pops and bam_fetch follow.  The
\* pointers are those of the buffers destroy_ld / destroy_sfs has freed for
\* the previous window, or were never set: the accesses that follow either
\* end the program or land in the freed buffers
StartWindowBadAlloc ==
    /\ pc = "main" /\ cw < num_windows
    /\ LET w == IF "BAM_WINDOW" \in flag THEN WindowCoord(beg, win_size, cw)
                ELSE [beg |-> beg, end |-> end]
       IN  /\ t_beg' = w.beg /\ t_end' = w.end
           /\ pos' = IF w.beg > 0 THEN w.beg - 1 ELSE 0
    /\ num_sites' = 0
    /\ segsites' = 0
    /\ bad_alloc' = TRUE
    /\ \/ pc' = "fault" /\ UNCHANGED pop_mask
       \/ cw > 0 /\ pop_mask' = assign_pops(sm) /\ pc' = "fetch"
    /\ UNCHANGED <<cb, ref, fnVars, optVars, emVars, beg, end, num_windows, cw, types, pop_cov,
                   ncov, statVars, out, siteVars>>

\* the handler called for a position of the window when new throws: cb stays
\* a null pointer and call_base is called with it
CallBaseBadAlloc ==
    /\ pc = "fetch" /\ pos <= t_end /\ InWindow(pos)
    /\ fq' = 0 /\ sample_cov' = {}
    /\ cb' = <<>>
    /\ ref' = ref_base(pos)
    /\ steps' = <<"call_base">>
    /\ bad_alloc' = TRUE
    /\ pc' = "fault"
    /\ UNCHANGED <<fnVars, optVars, emVars, mainVars, pos, winVars, statVars, out>>

\* calc_omegamax when the allocation of r2 throws: the loops that follow
\* store the r2 values through the pointer
CalcOmegamaxBadAlloc ==
    /\ pc = "calc" /\ derived_type = "LD" /\ output = 1 /\ segsites >= 1
    /\ bad_alloc' = TRUE
    /\ num_snps' = [j \in DOMAIN num_snps |-> IF j = 0 THEN 0 ELSE num_snps[j]]
    /\ pc' = "fault"
    /\ UNCHANGED <<cb, ref, fnVars, optVars, emVars, mainVars, pos, winVars, zns, omegamax, wallb,
                   wallq, ns, td, fwh, out, siteVars>>

Next ==
    \/ OutgroupLookup
    \/ StartWindow \/ StartWindowBadAlloc \/ CallBaseBadAlloc \/ CalcOmegamaxBadAlloc
    \/ NoColumn \/ ColumnOutside \/ CallBase \/ CleanStep \/ SegStep
    \/ FilterStep \/ RecordLd \/ RecordSfs \/ EndFetch
    \/ CalcZns \/ CalcOmegamax \/ CalcWall \/ PrintLd \/ CalcSfs \/ CalcSfsFault
    \/ PrintSfs \/ Finish

Spec == InitMain /\ [][Next]_vars


(***************************************************************************)
(* Claims about the pileup handlers                                        *)
(***************************************************************************)
\* the calls the handler has made for the column, qfilter being steps[j]
FilterRanBefore(i) == \E j \in 1 .. (i - 1) : steps[j] = "qfilter"

CodeOrder == <<"call_base", "clean_heterozygotes", "segbase", "qfilter">>

MeetsCoverage(i) ==
    LET ncovered == Cardinality(sample_cov \cap pop_mask[i])
        nsmpl == Cardinality(pop_mask[i])
    IN  IF derived_type = "LD" THEN ncovered = nsmpl
        ELSE ncovered * 10000 >= ((min_pop * nsmpl * 100 + 4999) \div 10000) * 10000

SomePopCovered == \E i \in DOMAIN pop_mask : MeetsCoverage(i)

Counters == <<num_sites, segsites, types, pop_cov, ncov>>

\* what one step of the program does to the counters of the window
CountersStep ==
    /\ (pc = "record") =>
          /\ num_sites' = num_sites + (IF SomePopCovered THEN 1 ELSE 0)
          /\ segsites' = segsites + (IF SomePopCovered /\ fq > 0 THEN 1 ELSE 0)
          /\ (SomePopCovered /\ fq > 0) =>
                /\ types'[segsites] = {i \in DOMAIN cb : cb[i].flags % 4 = 3}
                /\ \A j \in DOMAIN types : j # segsites => types'[j] = types[j]
                /\ derived_type = "SFS" =>
                      \A i \in DOMAIN pop_mask :
                          ncov'[i][segsites] = Cardinality(sample_cov \cap pop_mask[i])
          /\ ~(SomePopCovered /\ fq > 0) => UNCHANGED <<types, ncov>>
          /\ pc' = "fetch" /\ pos' = pos + 1
    /\ (pc \in {"fetch", "clean_heterozygotes", "segbase", "qfilter"}) => UNCHANGED Counters
    /\ (pc = "fetch" /\ ~(t_beg <= pos /\ pos < t_end)) => UNCHANGED <<Counters, pop_mask, statVars>>

\* C9: for a position of the window num_sites grows by one iff some population
\* meets its coverage requirement, segsites grows by one and the site type is
\* stored iff moreover segbase returned a positive count (so never for the -1
\* of a multi-allelic site), and the next position is fetched; a position
\* outside the window changes nothing of the window
C9_Counters == [][CountersStep]_vars

\* the same for the windows whose buffers init_ld / init_sfs has allocated
CountersWhenAllocated == [][(~bad_alloc) => CountersStep]_vars

\* a multi-allelic column has been counted as aligned but not as segregating,
\* after a segregating column, and the fetch goes on
C9_Witness ==
    /\ pc = "fetch"
    /\ fq = -1
    /\ Len(steps) = Len(CodeOrder)
    /\ num_sites = 2
    /\ segsites = 1
    /\ pos < t_end


(***************************************************************************)
(* Claims about calc_zns                                                   *)
(***************************************************************************)
\* site j of the window buffer qualifies in population i
Qualifies(i, j) ==
    LET x == Cardinality(types[j] \cap pop_mask[i])
        n == Cardinality(pop_mask[i])
    IN  (x >= min_freq) /\ (x <= n - min_freq)

QualifyingCount(i) == Cardinality({j \in 0 .. (segsites - 1) : Qualifies(i, j)})

\* r2 of the sites a and b within population i
R2Pair(i, a, b) ==
    LET n == Cardinality(pop_mask[i])
        x0 == Cardinality(types[a] \cap pop_mask[i])
        x1 == Cardinality(types[b] \cap pop_mask[i])
        x11 == Cardinality(types[a] \cap types[b] \cap pop_mask[i])
        d == x0 * x1 - n * x11
    IN  DDiv(DInt(d * d), DInt((n - x0) * x0 * (n - x1) * x1))

\* the sum of r2 over all pairs a < b of qualifying sites of population i
PairSum(i) ==
    DSum(LAMBDA a : DSum(LAMBDA b : IF Qualifies(i, a) /\ Qualifies(i, b)
                                    THEN R2Pair(i, a, b) ELSE DZero,
                         a + 1, segsites - 1),
         0, segsites - 2)

Choose2(x) == (x * (x - 1)) \div 2

\* C11: after calc_zns, for every population with q >= 2 qualifying sites
\* anywhere in the buffer, zns is the sum of r2 over the pairs of qualifying
\* sites divided by C(q, 2)
C11_ZnsIsMeanR2 ==
    (pc = "print" /\ output = 0) =>
        \A i \in DOMAIN pop_mask :
            QualifyingCount(i) >= 2 =>
                zns[i] = DDiv(PairSum(i), DInt(Choose2(QualifyingCount(i))))

\* the mean is right whenever the last site of the buffer qualifies
ZnsRightWhenLastQualifies ==
    (pc = "print" /\ output = 0) =>
        \A i \in DOMAIN pop_mask :
            (QualifyingCount(i) >= 2 /\ Qualifies(i, segsites - 1)) =>
                zns[i] = DDiv(PairSum(i), DInt(Choose2(QualifyingCount(i))))


\* the permutations of the first segsites entries of the window buffer
SitePerms ==
    {f \in [0 .. (segsites - 1) -> 0 .. (segsites - 1)] :
        \A a, b \in 0 .. (segsites - 1) : (a # b) => (f[a] # f[b])}

Permuted(f) == [j \in DOMAIN types |-> IF j < segsites THEN types[f[j]] ELSE types[j]]

\* calc_zns run on a fresh window holding the given buffer
ZnsOf(ty) ==
    calc_zns(ty, segsites, pop_mask, min_freq,
             init_ld(MaxSites, sm.npops, 0).num_snps, init_ld(MaxSites, sm.npops, 0).zns)

\* C12: calc_zns gives every population the same zns and the same num_snps
\* on every permutation of the window buffer
C12_ZnsOrderInvariant ==
    (pc = "print" /\ output = 0) =>
        \A f \in SitePerms :
            /\ ZnsOf(Permuted(f)).zns = zns
            /\ ZnsOf(Permuted(f)).num_snps = num_snps

\* the sum of r2 accumulated before the division does not depend on the order
ZnsSumOrderInvariant ==
    (pc = "print" /\ output = 0) =>
        \A f \in SitePerms : \A i \in DOMAIN pop_mask :
            LET ty == Permuted(f)
                n == Cardinality(pop_mask[i])
                Q(j) == FreqOk(Cardinality(ty[j] \cap pop_mask[i]), n, min_freq)
            IN  DSum(LAMBDA a : DSum(LAMBDA b : IF Q(a) /\ Q(b)
                                                THEN r2of(ty[a] \cap pop_mask[i],
                                                          ty[b] \cap pop_mask[i], n)
                                                ELSE DZero, a + 1, segsites - 1),
                     0, segsites - 2) = PairSum(i)


(***************************************************************************)
(* Specification of the LD statistics on two families of windows of one    *)
(* population of 10 samples: two segregating sites with derived counts 3   *)
(* and 4 that share 2 samples (Zns), and five segregating sites of one     *)
(* bipartition pattern (Wall's B and Q)                                    *)
(***************************************************************************)
\* the window length of these families
ScenarioLen == 5

ScenarioSmpl == OnePop(10)

SubsetsOfSize(S, c) == {x \in SUBSET S : Cardinality(x) = c}

\* the buffers <<a, b>> and <<b, a>> with |a| = 3, |b| = 4, |a \cap b| = 2
ZnsScenarioBuffers ==
    LET pairs == {<<a, b>> \in SubsetsOfSize(0 .. (ScenarioSmpl.n - 1), 3)
                              \X SubsetsOfSize(0 .. (ScenarioSmpl.n - 1), 4) :
                      Cardinality(a \cap b) = 2}
    IN  {[j \in 0 .. (ScenarioLen - 1) |->
            IF j = 0 THEN pr[1] ELSE IF j = 1 THEN pr[2] ELSE {}] : pr \in pairs}
        \cup
        {[j \in 0 .. (ScenarioLen - 1) |->
            IF j = 0 THEN pr[2] ELSE IF j = 1 THEN pr[1] ELSE {}] : pr \in pairs}

\* the buffers of ScenarioLen sites that all have the pattern x, x being a
\* proper non-empty part of the population
WallScenarioBuffers ==
    {[j \in 0 .. (ScenarioLen - 1) |-> x] :
        x \in (SUBSET (0 .. (ScenarioSmpl.n - 1))) \ {{}, 0 .. (ScenarioSmpl.n - 1)}}

InitScenario ==
    /\ pc = "calc"
    /\ q = NoQ /\ k = 0 /\ ret = 0 /\ cb = <<>> /\ cb0 = <<>> /\ ref = "A"
    /\ derived_type = "LD" /\ flag = {} /\ min_pop = 100
    /\ NoErrmod
    /\ bad_alloc = FALSE
    /\ outidx = 0 /\ outpop = 0
    /\ min_snps = 2
    /\ min_freq \in {1, 2}
    /\ sm = ScenarioSmpl
    /\ beg = 1 /\ end = 1 + ScenarioLen /\ win_size = ScenarioLen
    /\ num_windows = 1 /\ cw = 0 /\ t_beg = beg /\ t_end = end
    /\ pos = t_end
    /\ \/ output = 0 /\ segsites = 2 /\ types \in ZnsScenarioBuffers
       \/ output = 2 /\ segsites = ScenarioLen /\ types \in WallScenarioBuffers
    /\ num_sites = segsites
    /\ pop_mask = assign_pops(sm)
    /\ pop_cov = [i \in 0 .. (ScenarioLen - 1) |-> IF i >= segsites THEN {} ELSE {0}]
    /\ ncov = <<>> /\ ns = <<>> /\ td = <<>> /\ fwh = <<>> /\ out = <<>>
    /\ num_snps = init_ld(ScenarioLen, sm.npops, output).num_snps
    /\ zns = init_ld(ScenarioLen, sm.npops, output).zns
    /\ omegamax = init_ld(ScenarioLen, sm.npops, output).omegamax
    /\ wallb = init_ld(ScenarioLen, sm.npops, output).wallb
    /\ wallq = init_ld(ScenarioLen, sm.npops, output).wallq
    /\ sample_cov = {} /\ fq = 0 /\ steps = <<>>

NextScenario == CalcZns \/ CalcWall \/ PrintLd

SpecScenario == InitScenario /\ [][NextScenario]_vars

\* C13: one population of 10, two segregating sites with derived counts 3
\* and 4 and 2 samples derived at both: calc_zns yields zns = 64/504 and
\* num_snps = 2
C13_ZnsScenario ==
    (pc = "print" /\ output = 0) =>
        /\ zns[0] = DDiv(DInt(64), DInt(504))
        /\ num_snps[0] = 2

C13_Witness ==
    /\ pc = "print" /\ output = 0
    /\ Cardinality(pop_mask[0]) = 10
    /\ segsites = 2
    /\ types[0] = {0, 1, 2} /\ types[1] = {1, 2, 3, 4}
    /\ zns[0] = [kind |-> "num", n |-> 8, d |-> 63]


(***************************************************************************)
(* Specification of calc_omegamax on windows long enough for two split     *)
(* points: one population, up to OmegaSites segregating sites              *)
(***************************************************************************)
OmegaSamples == 4
OmegaSites == 4

InitOmega ==
    /\ pc = "calc"
    /\ q = NoQ /\ k = 0 /\ ret = 0 /\ cb = <<>> /\ cb0 = <<>> /\ ref = "A"
    /\ derived_type = "LD" /\ flag = {} /\ min_pop = 100
    /\ NoErrmod
    /\ bad_alloc = FALSE
    /\ outidx = 0 /\ outpop = 0
    /\ output = 1
    /\ min_snps = 2
    /\ min_freq = 1
    /\ sm = OnePop(OmegaSamples)
    /\ beg = 1 /\ end = 1 + OmegaSites /\ win_size = OmegaSites
    /\ num_windows = 1 /\ cw = 0 /\ t_beg = beg /\ t_end = end
    /\ pos = t_end
    /\ segsites \in 0 .. OmegaSites
    /\ num_sites = segsites
    /\ \E ty \in [0 .. (segsites - 1) -> SiteTypes(sm)] :
          types = [i \in 0 .. (OmegaSites - 1) |-> IF i < segsites THEN ty[i] ELSE {}]
    /\ pop_mask = assign_pops(sm)
    /\ pop_cov = [i \in 0 .. (OmegaSites - 1) |-> IF i >= segsites THEN {} ELSE {0}]
    /\ ncov = <<>> /\ ns = <<>> /\ td = <<>> /\ fwh = <<>> /\ out = <<>>
    /\ num_snps = init_ld(OmegaSites, sm.npops, output).num_snps
    /\ zns = init_ld(OmegaSites, sm.npops, output).zns
    /\ omegamax = init_ld(OmegaSites, sm.npops, output).omegamax
    /\ wallb = init_ld(OmegaSites, sm.npops, output).wallb
    /\ wallq = init_ld(OmegaSites, sm.npops, output).wallq
    /\ sample_cov = {} /\ fq = 0 /\ steps = <<>>

NextOmega == CalcOmegamax \/ PrintLd

SpecOmega == InitOmega /\ [][NextOmega]_vars

(***************************************************************************)
(* Claims about calc_omegamax                                              *)
(***************************************************************************)
\* the c-th qualifying site of population p, c counted from 0
QualSite(p, c) ==
    CHOOSE j \in 0 .. (segsites - 1) :
        Qualifies(p, j) /\ Cardinality({h \in 0 .. (j - 1) : Qualifies(p, h)}) = c

\* r2 of the a-th and the b-th qualifying sites
QR2(p, a, b) == R2Pair(p, QualSite(p, a), QualSite(p, b))

\* the r2 sums of the split point i alone, m being the qualifying count
SumLeftAt(p, i) ==
    DSum(LAMBDA a : DSum(LAMBDA b : QR2(p, a, b), a + 1, i), 0, i - 1)
SumRightAt(p, i) ==
    DSum(LAMBDA a : DSum(LAMBDA b : QR2(p, a, b), a + 1, QualifyingCount(p) - 1),
         i + 1, QualifyingCount(p) - 2)
SumBetweenAt(p, i) ==
    DSum(LAMBDA a : DSum(LAMBDA b : QR2(p, a, b), i + 1, QualifyingCount(p) - 1), 0, i)

OmegaAt(p, i) ==
    LET m == QualifyingCount(p)
    IN  DMul(DDiv(DAdd(SumLeftAt(p, i), SumRightAt(p, i)),
                  DInt(Choose2(i + 1) + Choose2(m - i - 1))),
             DDiv(DInt((i + 1) * (m - i - 1)), SumBetweenAt(p, i)))

AllSplits(p) == 1 .. (QualifyingCount(p) - 2)
UsableSplits(p) == {i \in AllSplits(p) : SumBetweenAt(p, i) # DZero}

\* the maximum of omega over a set of split points, 0 when there is none
MaxOmega(p, I) ==
    IF I = {} THEN DZero
    ELSE LET vals == {OmegaAt(p, i) : i \in I}
         IN  CHOOSE v \in vals : \A u \in vals : ~DGreater(u, v)

\* C14: for a population with split points, none of which has a zero
\* between-block sum, omegamax is the maximum over the split points of
\* omega computed from the sums of that split point alone
C14_OmegaMaxPerSplit ==
    (pc = "print" /\ output = 1) =>
        \A p \in DOMAIN pop_mask :
            (AllSplits(p) # {} /\ UsableSplits(p) = AllSplits(p)) =>
                omegamax[p] = MaxOmega(p, AllSplits(p))

\* with a single split point and a qualifying last site the value is right
OmegaRightWithOneSplit ==
    (pc = "print" /\ output = 1) =>
        \A p \in DOMAIN pop_mask :
            (QualifyingCount(p) = 3 /\ Qualifies(p, segsites - 1)
             /\ UsableSplits(p) = AllSplits(p)) =>
                omegamax[p] = MaxOmega(p, AllSplits(p))

\* C15: a split point whose between-block sum is 0 contributes no candidate:
\* omegamax is a finite number, the maximum over the other split points
C15_ZeroBetweenSkipped ==
    (pc = "print" /\ output = 1) =>
        \A p \in DOMAIN pop_mask :
            (UsableSplits(p) # AllSplits(p)) =>
                /\ omegamax[p].kind = "num"
                /\ omegamax[p] = MaxOmega(p, UsableSplits(p))


(***************************************************************************)
(* Claims about calc_wall                                                  *)
(***************************************************************************)
\* calc_wall run on the same buffer with population p as the only one
WallAlone(p) ==
    calc_wall(types, segsites, [i \in 0 .. 0 |-> pop_mask[p]],
              Arr(1, 0), Arr(1, DZero), Arr(1, DZero))

\* C16: with several populations, the B and Q of each population are the
\* values calc_wall gives with that population as the only one, the previous
\* pattern being tracked per population
C16_WallPerPopulation ==
    (pc = "print" /\ output = 2 /\ segsites >= 1) =>
        \A p \in DOMAIN pop_mask :
            /\ wallb[p] = WallAlone(p).wallb[0]
            /\ wallq[p] = WallAlone(p).wallq[0]


\* C17: one population and 5 segregating sites of one bipartition pattern:
\* calc_wall yields num_snps = 5 and B = 4/4 = 1, and Q counts exactly one
\* partition type, Q = (4 + 1)/5
C17_WallScenario ==
    (pc = "print" /\ output = 2) =>
        /\ num_snps[0] = 5
        /\ wallb[0] = DInt(1)
        /\ wallq[0] = DDiv(DInt(4 + 1), DInt(5))

\* the count and B of that window are as stated; Q is 4/5
WallScenarioCountAndB ==
    (pc = "print" /\ output = 2) =>
        /\ num_snps[0] = ScenarioLen
        /\ wallb[0] = DInt(1)
        /\ wallq[0] = DDiv(DInt(ScenarioLen - 1), DInt(ScenarioLen))


(***************************************************************************)
(* calc_sfs and print_sfs on the buffers of one window                     *)
(***************************************************************************)
SfsSamples == 4
SfsLen == 3

\* the samples that pass the filter in a column, and the samples that carry
\* the variant in a segregating column
SfsCovs == {{}, 0 .. (SfsSamples - 1), 0 .. (SfsSamples - 2), {SfsSamples - 2, SfsSamples - 1}}
SfsTypes == {{0}, {SfsSamples - 1}, {0, 2}, 0 .. (SfsSamples - 1)}

\* a column after segbase and qfilter: cal_site_type sets the bit of a sample
\* only if the sample passed the filter
SfsColumns ==
    {[cov |-> c, fq |-> 0, type |-> {}] : c \in SfsCovs}
    \cup {[cov |-> c, fq |-> 1, type |-> ty] :
             <<c, ty>> \in {x \in SfsCovs \X SfsTypes : x[2] \subseteq x[1]}}

\* the buffers after make_sfs has handled the first c columns of cols
RECURSIVE SfsWindow(_, _, _, _)
SfsWindow(cols, c, masks, w0) ==
    IF c = 0 THEN w0
    ELSE LET w == SfsWindow(cols, c - 1, masks, w0)
             col == cols[c]
             covered == {i \in DOMAIN masks : PopCoveredSFS(col.cov, masks[i])}
         IN  IF covered = {} THEN w
             ELSE IF ~IsSegregating(col.fq)
             THEN [w EXCEPT !.pop_cov[w.num_sites] = @ \cup covered,
                            !.num_sites = @ + 1]
             ELSE [w EXCEPT !.pop_cov[w.num_sites] = @ \cup covered,
                            !.num_sites = @ + 1,
                            !.ncov = [j \in DOMAIN masks |->
                                        [w.ncov[j] EXCEPT ![w.segsites] =
                                            bitcount64(col.cov \cap masks[j])]],
                            !.types[w.segsites] = col.type,
                            !.segsites = @ + 1]

InitSFS ==
    /\ pc = "calc"
    /\ q = NoQ /\ k = 0 /\ ret = 0 /\ cb = <<>> /\ cb0 = <<>> /\ ref = "A"
    /\ derived_type = "SFS" /\ output = 0 /\ min_snps = 2 /\ min_freq = 1
    /\ min_pop \in {50, 100}
    /\ sm \in {OnePop(SfsSamples), TwoPops(SfsSamples, SfsSamples \div 2)}
    /\ flag \in {{}, {"BAM_OUTGROUP"}}
    /\ NoErrmod
    /\ bad_alloc = FALSE
    /\ outidx = IF "BAM_OUTGROUP" \in flag THEN SfsSamples - 1 ELSE 0
    /\ outpop \in (IF "BAM_OUTGROUP" \in flag THEN 0 .. (sm.npops - 1) ELSE {0})
    /\ beg = 1 /\ end = 1 + SfsLen /\ win_size = SfsLen
    /\ num_windows = 1 /\ cw = 0 /\ t_beg = beg /\ t_end = end
    /\ pos = t_end
    /\ pop_mask = assign_pops(sm)
    /\ \E cols \in [1 .. SfsLen -> SfsColumns] :
          LET sfs == init_sfs(SfsLen, sm.npops)
              w == SfsWindow(cols, SfsLen, pop_mask,
                             [segsites |-> 0, num_sites |-> 0, types |-> sfs.types,
                              pop_cov |-> sfs.pop_cov, ncov |-> sfs.ncov])
          IN  /\ segsites = w.segsites /\ num_sites = w.num_sites
              /\ types = w.types /\ pop_cov = w.pop_cov /\ ncov = w.ncov
    /\ ns = init_sfs(SfsLen, sm.npops).ns
    /\ num_snps = init_sfs(SfsLen, sm.npops).num_snps
    /\ td = init_sfs(SfsLen, sm.npops).td
    /\ fwh = init_sfs(SfsLen, sm.npops).fwh
    /\ zns = <<>> /\ omegamax = <<>> /\ wallb = <<>> /\ wallq = <<>> /\ out = <<>>
    /\ sample_cov = {} /\ fq = 0 /\ steps = <<>>

NextSFS == CalcSfs \/ CalcSfsFault \/ PrintSfs

SpecSFS == InitSFS /\ [][NextSFS]_vars

\* the last line printed
LastSfsLine == out[Len(out)]

\* C18: a population whose number of aligned sites is below
\* min_sites * (end - beg) is printed with D and H both NA
C18_NAWhenFewSites ==
    (pc = "main" /\ derived_type = "SFS" /\ out # <<>>) =>
        \A i \in DOMAIN ns :
            (ns[i] * 10 < min_sites * (t_end - t_beg)) =>
                (LastSfsLine.pops[i].D = NA /\ LastSfsLine.pops[i].H = NA)

\* a population without any aligned site is printed with D and H both NA
NAWhenNoSite ==
    (pc = "main" /\ derived_type = "SFS" /\ out # <<>>) =>
        \A i \in DOMAIN ns :
            (ns[i] = 0) => (LastSfsLine.pops[i].D = NA /\ LastSfsLine.pops[i].H = NA)


\* the derived count of site j in population p: the number of samples of p
\* that carry the non-reference allele, or the number of covered samples of p
\* that do not when an outgroup is configured and carries the non-reference
\* allele at j (a sample set in types[j] has passed the filter at j)
DerivedCount(p, j) ==
    LET c == Cardinality(types[j] \cap pop_mask[p])
    IN  IF ("BAM_OUTGROUP" \in flag) /\ (outidx \in types[j]) THEN ncov[p][j] - c ELSE c

Contributes(p, j) == (0 < DerivedCount(p, j)) /\ (DerivedCount(p, j) < ncov[p][j])

\* C19: for a population whose statistics are computed, the sites counted by
\* calc_sfs are the segregating sites j with 0 < f < ncov[p][j], f being the
\* derived count, and num_snps[p] is their number
C19_SiteSelection ==
    (pc = "print" /\ derived_type = "SFS") =>
        \A p \in DOMAIN pop_mask :
            SfsEnough(ns[p], t_end - t_beg) =>
                /\ SfsSites(types, segsites, pop_mask, ncov, flag, outidx, outpop, p)
                      = {j \in 0 .. (segsites - 1) : Contributes(p, j)}
                /\ num_snps[p] = Cardinality({j \in 0 .. (segsites - 1) : Contributes(p, j)})

\* calc_sfs has counted a site where the outgroup carries the non-reference
\* allele and left out another site, for an outgroup of another population
\* than outpop
C19_Witness ==
    /\ pc = "print" /\ derived_type = "SFS" /\ "BAM_OUTGROUP" \in flag
    /\ outidx \notin pop_mask[outpop]
    /\ \E p \in DOMAIN pop_mask :
          /\ SfsEnough(ns[p], t_end - t_beg)
          /\ num_snps[p] = 1
          /\ \E j \in 0 .. (segsites - 1) :
                outidx \in types[j] /\ Contributes(p, j) /\ ncov[outpop][j] = 0
          /\ \E j \in 0 .. (segsites - 1) : ~Contributes(p, j)


(***************************************************************************)
(* Allocation failures                                                     *)
(***************************************************************************)
\* C20: when the allocation of a buffer of the window has failed the run has
\* been aborted: the program is at no step that follows the allocation
C20_AllocFailureFatal == bad_alloc => (pc = "abort")

\* after a failed allocation the run never gets to compute and print the
\* window from the buffers it did not allocate
NoLineAfterBadAlloc == [][(bad_alloc /\ bad_alloc') => (out' = out)]_vars


(***************************************************************************)
(* The window loop                                                         *)
(***************************************************************************)
\* bam_fetch of the current window has not delivered a column yet
AtWindowStart == pc = "fetch" /\ pos = (IF t_beg > 0 THEN t_beg - 1 ELSE 0)

AllZero(f) == \A i \in DOMAIN f : f[i] = 0
AllDZero(f) == \A i \in DOMAIN f : f[i] = DZero

\* the counters and accumulators of the window are zero
WindowZeroed ==
    /\ segsites = 0 /\ num_sites = 0
    /\ AllZero(num_snps)
    /\ (derived_type = "LD") =>
          /\ (output = 0) => AllDZero(zns)
          /\ (output = 1) => AllDZero(omegamax)
          /\ (output = 2) => (AllDZero(wallb) /\ AllDZero(wallq))
    /\ (derived_type = "SFS") => (AllZero(ns) /\ AllDZero(td) /\ AllDZero(fwh))

\* C21: at the start of each window segsites, num_sites, num_snps and the
\* accumulators of the statistics are zero
C21_WindowIndependence == AtWindowStart => WindowZeroed

\* the same for a window whose buffers init_ld / init_sfs has allocated
WindowZeroedWhenAllocated == (AtWindowStart /\ ~bad_alloc) => WindowZeroed

\* the windows are taken in increasing genomic order
WindowsInOrder == [][(cw' # cw) => (cw' = cw + 1)]_vars /\ [][t_beg' >= t_beg]_vars


(***************************************************************************)
(* cal_coef: the table fk of the error model                               *)
(***************************************************************************)
FkRanks == 11

\* em->coef = cal_coef(depcorr, 0.03)
eta == Frac(3, 100)

\* the values of depcorr: 0, 1/4, ... , 2
DepcorrVals == {Frac(c, 4) : c \in 0 .. 8}

\* pow(x, n) for an integer n >= 0
RECURSIVE DPow(_, _)
DPow(x, n) == IF n = 0 THEN DInt(1) ELSE DMul(DPow(x, n - 1), x)

\* fk[0] = 1.0; fk[n] = pow(1.0 - depcorr, n) * (1.0 - eta) + eta
cal_coef(dc, e, n) ==
    IF n = 0 THEN DInt(1)
    ELSE DAdd(DMul(DPow(DSub(DInt(1), dc), n), DSub(DInt(1), e)), e)

InitCoef ==
    /\ pc = "cal_coef"
    /\ q = NoQ /\ k = 0 /\ ret = 0 /\ cb = <<>> /\ cb0 = <<>> /\ ref = "A"
    /\ NoRun
    /\ depcorr \in DepcorrVals
    /\ fk = <<>>
    /\ bases = <<>> /\ used = {} /\ aux_c = <<>> /\ lik = <<>>

\* one round of the loop that fills fk; fk[r + 1] of the model is the entry
\* of rank r
FillFk ==
    /\ pc = "cal_coef" /\ Len(fk) <= FkRanks
    /\ fk' = Append(fk, cal_coef(depcorr, eta, Len(fk)))
    /\ UNCHANGED <<pc, cb, ref, fnVars, optVars, depcorr, bases, used, aux_c, lik, bad_alloc,
                   mainVars, pos, winVars, statVars, out, siteVars>>

NextCoef == FillFk

SpecCoef == InitCoef /\ [][NextCoef]_vars

\* C22: fk[0] = 1.0 and fk[r + 1] <= fk[r] for every rank r
C22_FkNonIncreasing ==
    (pc = "cal_coef" /\ Len(fk) >= 1) =>
        /\ fk[1] = DInt(1)
        /\ \A r \in 1 .. (Len(fk) - 1) : ~DGreater(fk[r + 1], fk[r])

\* the same for depcorr <= 1
FkNonIncreasingUpToOne ==
    (pc = "cal_coef" /\ Len(fk) >= 1 /\ ~DGreater(depcorr, DInt(1))) =>
        /\ fk[1] = DInt(1)
        /\ \A r \in 1 .. (Len(fk) - 1) : ~DGreater(fk[r + 1], fk[r])


(***************************************************************************)
(* errmod_cal: the observations used for the likelihoods                   *)
(***************************************************************************)
MaxObs == 256

\* the number of observations kept of a deeper column
SampleCap == 255

\* an observation is qual << 5 | strand << 4 | base
Obs(qual, strand, base) == (qual * 32) + (strand * 16) + base

\* k & 0xf with k = b & 0x1f
ObsBase(b) == (b % 32) % 16

\* the columns of the model: n observations of quality 20 or 21, on one base
\* or on NBASES + 1 base codes in turn
ObsColumns ==
    {[i \in 1 .. n |-> Obs(20 + (i % 2), i % 2, i % g)] :
        <<n, g>> \in (0 .. MaxObs) \X {1, NBASES + 1}}

\* mutant: every observation is used
Sampled_NoCap(n) == n

\* if (n > 255) { ks_shuffle(uint16_t, n, bases); n = 255; }
Sampled(n) == IF n > SampleCap THEN SampleCap ELSE n

\* the sets of c positions among lo .. n
RECURSIVE Positions(_, _, _)
Positions(n, c, lo) ==
    IF c = 0 THEN {{}}
    ELSE UNION {{{i} \cup d : d \in Positions(n, c - 1, i + 1)} : i \in lo .. n}

\* ks_shuffle permutes the n observations: the positions of the input whose
\* observations are among the first Sampled(n) afterwards
KeptSets(n) == {(1 .. n) \ d : d \in Positions(n, n - Sampled(n), 1)}

\* aux.c after the loop over the kept observations
AuxCounts(b, kept) ==
    [x \in 0 .. 15 |-> Cardinality({i \in kept : ObsBase(b[i]) = x})]

\* the entry q[j*m + c] after the second loop: it stays 0 when no kept
\* observation is on a base other than j and c; else it is a sum over those
\* bases, kept here as the set of the bases it is taken over
Likelihood(cnt, j, c) ==
    LET others == {x \in 0 .. (NBASES - 1) : x # j /\ x # c /\ cnt[x] > 0}
    IN  IF j = c
        THEN (IF others = {} THEN DZero ELSE [kind |-> "bsum", over |-> others])
        ELSE [kind |-> "lhet", cjk |-> cnt[j] + cnt[c], over |-> others]

InitErrmod ==
    /\ pc = "errmod_cal"
    /\ q = NoQ /\ k = 0 /\ ret = 0 /\ cb = <<>> /\ cb0 = <<>> /\ ref = "A"
    /\ NoRun
    /\ depcorr = Frac(17, 100) /\ fk = <<>>
    /\ bases \in ObsColumns
    /\ used = {} /\ aux_c = <<>> /\ lik = <<>>

\* errmod_cal(em, n, m, bases, q) with m = NBASES
ErrmodCal ==
    /\ pc = "errmod_cal"
    /\ LET n == Len(bases)
       IN  IF n = 0
           THEN /\ lik' = [x \in 0 .. (NBASES * NBASES - 1) |-> DZero]
                /\ UNCHANGED <<used, aux_c>>
           ELSE \E kept \in KeptSets(n) :
                   /\ used' = kept
                   /\ aux_c' = AuxCounts(bases, kept)
                   /\ lik' = [x \in 0 .. (NBASES * NBASES - 1) |->
                                Likelihood(aux_c', x \div NBASES, x % NBASES)]
    /\ pc' = "errmod_done"
    /\ UNCHANGED <<cb, ref, fnVars, optVars, depcorr, fk, bases, bad_alloc,
                   mainVars, pos, winVars, statVars, out, siteVars>>

NextErrmod == ErrmodCal

SpecErrmod == InitErrmod /\ [][NextErrmod]_vars

Min(a, b) == IF a < b THEN a ELSE b

RECURSIVE SumTo(_, _)
SumTo(f, hi) == IF hi < 0 THEN 0 ELSE SumTo(f, hi - 1) + f[hi]

\* the sum of the per-base counts; no count is made for an empty column
CountSum == IF aux_c = <<>> THEN 0 ELSE SumTo(aux_c, 15)

\* C23: of n > 255 observations exactly 255 of them are used, of n <= 255
\* all, for n = 0 every entry of the likelihood matrix is 0, and the per-base
\* counts sum to min(n, 255)
C23_DepthCap ==
    (pc = "errmod_done") =>
        LET n == Len(bases)
        IN  /\ used \subseteq 1 .. n
            /\ Cardinality(used) = Min(n, 255)
            /\ (n <= 255) => (used = 1 .. n)
            /\ (n = 0) => (\A x \in DOMAIN lik : lik[x] = DZero)
            /\ CountSum = Min(n, 255)
            /\ (n > 0) => (aux_c = AuxCounts(bases, used))

\* a column of more than 255 observations on several bases has been handled
C23_Witness ==
    /\ pc = "errmod_done" /\ Len(bases) > 255
    /\ Cardinality(used) = 255
    /\ Cardinality({x \in DOMAIN aux_c : aux_c[x] > 0}) > 1


(***************************************************************************)
(* The weight tables dw and hw                                             *)
(***************************************************************************)
\* the cells dw[d][f] and hw[d][f] calc_sfs reads for the window
TableReads ==
    {<<ncov[p][j], SfsFreq(types, pop_mask, ncov, flag, outidx, outpop, p, j)>> :
        <<p, j>> \in {x \in (DOMAIN pop_mask) \X (0 .. (segsites - 1)) :
                        /\ SfsEnough(ns[x[1]], t_end - t_beg)
                        /\ x[2] \in SfsSites(types, segsites, pop_mask, ncov, flag,
                                            outidx, outpop, x[1])}}

\* C24: every cell of dw and hw that calc_sfs reads has been assigned its
\* weight by calc_dw / calc_hw
C24_TablesCoverReads ==
    (pc = "print" /\ derived_type = "SFS") =>
        \A c \in TableReads : TableAssigned(sm.n, c[1], c[2])

\* the cells read are those with 2 <= d <= sm->n and 0 < f < d
ReadsInRange ==
    (pc = "print" /\ derived_type = "SFS") =>
        \A c \in TableReads : (2 <= c[1]) /\ (c[1] <= sm.n) /\ (0 < c[2]) /\ (c[2] < c[1])


(***************************************************************************)
(* The window buffers while the columns are handled                        *)
(***************************************************************************)
\* a window is being processed
InWindowLoop ==
    pc \in {"fetch", "call_base", "clean_heterozygotes", "segbase", "qfilter", "record",
            "calc", "print"}

\* the counters are within the arrays sized end - beg, the next write of the
\* handler is inside them, and every site counted has a population covered
BufferBounds ==
    InWindowLoop =>
        /\ 0 <= segsites /\ segsites <= num_sites /\ num_sites <= t_end - t_beg
        /\ DOMAIN types = 0 .. (t_end - t_beg - 1)
        /\ DOMAIN pop_cov = 0 .. (t_end - t_beg - 1)
        /\ (derived_type = "SFS") =>
              \A p \in DOMAIN ncov : DOMAIN ncov[p] = 0 .. (t_end - t_beg - 1)
        /\ (pc = "record") => (num_sites < t_end - t_beg /\ segsites < t_end - t_beg)
        /\ \A i \in 0 .. (num_sites - 1) : pop_cov[i] # {}

\* a site type written is not modified by the steps of the window
TypesKept == InWindowLoop => \A j \in 0 .. (segsites - 1) : types'[j] = types[j]

Appends == pc = "record" /\ segsites' = segsites + 1

\* C26: the number of set bits of every site type appended equals the
\* positive count segbase returned for the site, so no all-zero site type is
\* appended
C26_TypeMatchesCount ==
    [][Appends => (fq > 0 /\ Cardinality(types'[segsites]) = fq /\ types'[segsites] # {})]_vars

\* a site type is appended only for a positive count of segbase, and its
\* bits are those of samples that passed the filter
TypeWithinCount ==
    [][Appends => (fq > 0 /\ Cardinality(types'[segsites]) <= fq
                   /\ types'[segsites] \subseteq sample_cov)]_vars


(***************************************************************************)
(* The windows of a region                                                 *)
(***************************************************************************)
\* C27: in window mode window cw covers [beg + cw*w, beg + (cw + 1)*w), so
\* that consecutive windows are contiguous, and there is a window for every
\* position of [beg, beg + w * floor((end - beg)/w))
C27_WindowsTile ==
    ("BAM_WINDOW" \in flag) =>
        /\ InWindowLoop =>
              (t_beg = beg + (cw * win_size) /\ t_end = beg + ((cw + 1) * win_size))
        /\ num_windows >= (end - beg) \div win_size

\* window cw starts at beg + cw*w and ends one position before the start of
\* window cw + 1
WindowsOnePositionShort ==
    ("BAM_WINDOW" \in flag /\ InWindowLoop) =>
        (t_beg = beg + (cw * win_size) /\ t_end = beg + ((cw + 1) * win_size) - 1)

\* a region of exactly one or two window sizes gets one window less
WindowCountShort ==
    /\ NumWindows(RegionBeg, RegionBeg + KB, KB) = 0
    /\ NumWindows(RegionBeg, RegionBeg + (2 * KB), KB) = 1


(***************************************************************************)
(* The population masks                                                    *)
(***************************************************************************)
\* the program is at a statement that reads pop_mask[]: the outgroup lookup
\* of main_sfs, the coverage accounting of the handlers, or calc_zns,
\* calc_omegamax, calc_wall and calc_sfs
ReadsPopMask == pc \in {"lookup", "record", "calc"}

\* the masks have been allocated and filled for the window
MasksReady == (pop_mask # <<>>) /\ (pop_mask = assign_pops(sm))

\* C28: every read of pop_mask[] happens after the masks have been allocated
\* by init_ld / init_sfs and filled by assign_pops
C28_MasksBeforeUse == ReadsPopMask => MasksReady

\* the same for the reads of the handlers and of the statistics
MasksReadyInWindow == (pc \in {"record", "calc"}) => MasksReady

====
